---------------------------- MODULE Spec2Model ----------------------------
(***************************************************************************)
(* bolt-server: an HTTP front end (HEAD, GET, PUT, DELETE) over a BoltDB   *)
(* store.  The namespace lives in nested buckets below the root bucket     *)
(* "/", the stored response headers of every value live in the header      *)
(* bucket "\x00headers", keyed by the escaped request path.                *)
(*                                                                         *)
(* Strings the code parses (paths, bucket names) are sequences of          *)
(* one-character strings; values are sequences of bytes (0..255); header   *)
(* values that are only compared or copied are TLA+ strings.  A pointer    *)
(* that may be nil is a sequence of length 0 (nil) or 1.                   *)
(***************************************************************************)
EXTENDS Integers, Sequences, FiniteSets, TLC

None == <<>>

Some(x) == <<x>>

IsNil(o) == o = <<>>

Val(o) == o[1]

(***************************************************************************)
(* hash/fnv New64a and encoding/base64 StdEncoding, as etag uses them.     *)
(* A 64-bit word is four 16-bit limbs, least significant first, so that    *)
(* every intermediate product stays below 2^31.                            *)
(***************************************************************************)
Limb == 65536

\* FNV-1a 64-bit offset basis 0xcbf29ce484222325
FnvOffset64 == <<8997, 33826, 40164, 52210>>

\* the low 16 bits 0x01b3 of the FNV 64-bit prime 0x100000001b3 = 2^40 + 0x1b3
FnvPrimeLow == 435

RECURSIVE BitXor(_, _)
BitXor(x, y) ==
    IF x = 0 THEN y
    ELSE IF y = 0 THEN x
    ELSE (((x % 2) + (y % 2)) % 2) + (2 * BitXor(x \div 2, y \div 2))

\* the limbs of (h * k) mod 2^64 for a small factor k
MulSmall(h, k) ==
    LET p1 == h[1] * k
        p2 == (h[2] * k) + (p1 \div Limb)
        p3 == (h[3] * k) + (p2 \div Limb)
        p4 == (h[4] * k) + (p3 \div Limb)
    IN  <<p1 % Limb, p2 % Limb, p3 % Limb, p4 % Limb>>

\* (h * 2^40) mod 2^64: eight bits up, then two limbs up
Shl40(h) ==
    LET s == MulSmall(h, 256)
    IN  <<0, 0, s[1], s[2]>>

Add64(x, y) ==
    LET s1 == x[1] + y[1]
        s2 == x[2] + y[2] + (s1 \div Limb)
        s3 == x[3] + y[3] + (s2 \div Limb)
        s4 == x[4] + y[4] + (s3 \div Limb)
    IN  <<s1 % Limb, s2 % Limb, s3 % Limb, s4 % Limb>>

\* one round of FNV-1a: hash ^= byte; hash *= prime64
FnvStep(h, byte) ==
    LET x == <<BitXor(h[1], byte), h[2], h[3], h[4]>>
    IN  Add64(MulSmall(x, FnvPrimeLow), Shl40(x))

RECURSIVE Fnv64a(_, _)
Fnv64a(h, b) ==
    IF b = <<>> THEN h ELSE Fnv64a(FnvStep(h, Head(b)), Tail(b))

\* hash.Sum(nil): the eight bytes of the word, most significant first
SumBytes(h) ==
    <<h[4] \div 256, h[4] % 256, h[3] \div 256, h[3] % 256,
      h[2] \div 256, h[2] % 256, h[1] \div 256, h[1] % 256>>

Base64Alphabet ==
    <<"A","B","C","D","E","F","G","H","I","J","K","L","M","N","O","P",
      "Q","R","S","T","U","V","W","X","Y","Z","a","b","c","d","e","f",
      "g","h","i","j","k","l","m","n","o","p","q","r","s","t","u","v",
      "w","x","y","z","0","1","2","3","4","5","6","7","8","9","+","/">>

B64(n) == Base64Alphabet[n + 1]

RECURSIVE Base64Std(_)
Base64Std(b) ==
    IF Len(b) = 0 THEN ""
    ELSE IF Len(b) = 1 THEN
        B64(b[1] \div 4) \o B64((b[1] % 4) * 16) \o "=="
    ELSE IF Len(b) = 2 THEN
        B64(b[1] \div 4) \o B64(((b[1] % 4) * 16) + (b[2] \div 16))
            \o B64((b[2] % 16) * 4) \o "="
    ELSE
        B64(b[1] \div 4) \o B64(((b[1] % 4) * 16) + (b[2] \div 16))
            \o B64(((b[2] % 16) * 4) + (b[3] \div 64)) \o B64(b[3] % 64)
            \o Base64Std(SubSeq(b, 4, Len(b)))

\* base64 encoded etag
etag(b) == Base64Std(SumBytes(Fnv64a(FnvOffset64, b)))

(***************************************************************************)
(* Byte strings and their order.                                           *)
(***************************************************************************)
\* the byte value of every character a path of the model is written with
Ascii == [c \in {"/", "a", "b", "NUL", "h", "e", "d", "r", "s",
                 "%", "0", "2", "f", "o", "z"} |->
            CASE c = "NUL" -> 0
              [] c = "%" -> 37
              [] c = "/" -> 47
              [] c = "0" -> 48
              [] c = "2" -> 50
              [] c = "f" -> 102
              [] c = "o" -> 111
              [] c = "z" -> 122
              [] c = "a" -> 97
              [] c = "b" -> 98
              [] c = "d" -> 100
              [] c = "e" -> 101
              [] c = "h" -> 104
              [] c = "r" -> 114
              [] c = "s" -> 115]

\* bytes.Compare(s, t) < 0, the order of the keys of a bucket
RECURSIVE BytesLess(_, _)
BytesLess(s, t) ==
    IF t = <<>> THEN FALSE
    ELSE IF s = <<>> THEN TRUE
    ELSE IF Head(s) = Head(t) THEN BytesLess(Tail(s), Tail(t))
    ELSE Ascii[Head(s)] < Ascii[Head(t)]

RECURSIVE SortKeys(_)
SortKeys(S) ==
    IF S = {} THEN <<>>
    ELSE LET m == CHOOSE x \in S : \A y \in S \ {x} : BytesLess(x, y)
         IN  <<m>> \o SortKeys(S \ {m})

\* strconv.Itoa for n >= 0, the text of a Content-Length header
Digits == <<"0", "1", "2", "3", "4", "5", "6", "7", "8", "9">>

RECURSIVE Itoa(_)
Itoa(n) ==
    IF n < 10 THEN Digits[n + 1] ELSE Itoa(n \div 10) \o Digits[(n % 10) + 1]

(***************************************************************************)
(* The path resolver.                                                      *)
(***************************************************************************)
\* a variant that leaves every byte of the path as it is
unescapedPath(path) == path

\* req.URL.EscapedPath() of the decoded path req.URL.Path: a NUL byte is
\* written %00, the other bytes of the model's paths stand for themselves
RECURSIVE EscapedPath(_)
EscapedPath(path) ==
    IF path = <<>> THEN <<>>
    ELSE (IF Head(path) = "NUL" THEN <<"%", "0", "0">> ELSE <<Head(path)>>)
            \o EscapedPath(Tail(path))

\* bytes.Split(path, "/"): the components between the separators, empty
\* ones included; cur is the component being read
RECURSIVE BytesSplit(_, _)
BytesSplit(path, cur) ==
    IF path = <<>> THEN <<cur>>
    ELSE IF Head(path) = "/" THEN <<cur>> \o BytesSplit(Tail(path), <<>>)
    ELSE BytesSplit(Tail(path), Append(cur, Head(path)))

NonEmpty(p) == Len(p) > 0

\* a variant that keeps the empty segments
splitKeepEmpty(path) == << <<"/">> >> \o BytesSplit(path, <<>>)

splitPath(path) ==
    << <<"/">> >> \o SelectSeq(BytesSplit(path, <<>>), NonEmpty)

(***************************************************************************)
(* The store.  A database state d is a record                              *)
(*   bk   the buckets: each the sequence of bucket names leading to it     *)
(*        from the transaction (<<"/">> for the root bucket)               *)
(*   val  the values of the namespace: key path |-> bytes                  *)
(*   hb   the key/value pairs of the header bucket: path |-> JSON          *)
(* A bucket handle is the bucket's name sequence; nil is None.             *)
(***************************************************************************)
RootName == <<"/">>

headerBucket == <<"NUL", "h", "e", "a", "d", "e", "r", "s">>

EmptyFn == [x \in {} |-> x]

EmptyDB == [bk |-> {}, val |-> EmptyFn, hb |-> EmptyFn]

\* tx.Bucket(name)
TxBucket(d, name) == IF <<name>> \in d.bk THEN Some(<<name>>) ELSE None

\* b.Bucket(name) on a non-nil handle b
SubBucket(d, b, name) ==
    IF Append(b, name) \in d.bk THEN Some(Append(b, name)) ELSE None

\* b.Get(key): nil for a missing key and for a nested bucket
BucketGet(d, b, key) ==
    IF Append(b, key) \in DOMAIN d.val THEN Some(d.val[Append(b, key)]) ELSE None

\* a variant that hands out the bucket without creating it
CreateBucketNothing(d, b, name) ==
    [d |-> d, b |-> Some(Append(b, name)), err |-> "nil"]

\* b.CreateBucketIfNotExists(name): [d, b, err]
CreateBucketIfNotExists(d, b, name) ==
    LET k == Append(b, name)
    IN  IF k \in DOMAIN d.val
        THEN [d |-> d, b |-> None, err |-> "ErrIncompatibleValue"]
        ELSE [d |-> [d EXCEPT !.bk = @ \cup {k}], b |-> Some(k), err |-> "nil"]

\* b.Put(key, value): [d, err]
BucketPutNothing(d, b, key, value) == [d |-> d, err |-> "nil"]

BucketPut(d, b, key, value) ==
    LET k == Append(b, key)
    IN  IF key = <<>> THEN [d |-> d, err |-> "ErrKeyRequired"]
        ELSE IF k \in d.bk THEN [d |-> d, err |-> "ErrIncompatibleValue"]
        ELSE [d |-> [d EXCEPT !.val =
                        [x \in DOMAIN d.val \cup {k} |->
                            IF x = k THEN value ELSE d.val[x]]],
              err |-> "nil"]

\* a variant that deletes a nested bucket like a value
BucketDeleteAny(d, b, key) ==
    LET k == Append(b, key)
    IN  [d |-> [d EXCEPT !.bk = @ \ {k},
                         !.val = [x \in DOMAIN d.val \ {k} |-> d.val[x]]],
         err |-> "nil"]

\* a variant that deletes nothing
BucketDeleteNothing(d, b, key) == [d |-> d, err |-> "nil"]

\* b.Delete(key): the cursor seeks the first key of b that is not below
\* key, and Delete tests the flags of the entry it lands on without
\* comparing its key: a nested bucket there is ErrIncompatibleValue, also
\* when key itself is absent; otherwise key is removed if it is there
BucketDelete(d, b, key) ==
    LET k == Append(b, key)
        notBelow == {x \in d.bk \cup DOMAIN d.val :
                        /\ Len(x) = Len(b) + 1
                        /\ SubSeq(x, 1, Len(b)) = b
                        /\ ~BytesLess(x[Len(x)], key)}
        sought == CHOOSE x \in notBelow :
                    \A y \in notBelow \ {x} : BytesLess(x[Len(x)], y[Len(y)])
    IN  IF notBelow # {} /\ sought \in d.bk
        THEN [d |-> d, err |-> "ErrIncompatibleValue"]
        ELSE [d |-> [d EXCEPT !.val = [x \in DOMAIN d.val \ {k} |-> d.val[x]]],
              err |-> "nil"]

\* a variant that visits the keys of the nested buckets as well
BucketKeysDeep(d, b) ==
    SortKeys({k[Len(k)] : k \in {x \in d.bk \cup DOMAIN d.val :
                                    Len(x) > Len(b) /\ SubSeq(x, 1, Len(b)) = b}})

\* the keys b.ForEach visits, in byte order: nested buckets and values
BucketKeys(d, b) ==
    SortKeys({k[Len(k)] : k \in {x \in d.bk \cup DOMAIN d.val :
                                    Len(x) = Len(b) + 1 /\ SubSeq(x, 1, Len(b)) = b}})

listKeys(d, b) == BucketKeys(d, b)

getBoltBucketOrValue(d, b, key) ==
    LET sub == SubBucket(d, b, key)
    IN  IF IsNil(sub) THEN [bucket |-> None, value |-> BucketGet(d, b, key)]
        ELSE [bucket |-> sub, value |-> None]

\* the loop of getBoltBucket over parts[1:]
RECURSIVE WalkBuckets(_, _, _)
WalkBuckets(d, b, rest) ==
    IF rest = <<>> \/ IsNil(b) THEN b
    ELSE WalkBuckets(d, SubBucket(d, Val(b), Head(rest)), Tail(rest))

\* [panic, bucket]
getBoltBucket(d, parts) ==
    LET b == TxBucket(d, parts[1])
    IN  IF IsNil(b) THEN [panic |-> TRUE, bucket |-> None]
        ELSE [panic |-> FALSE, bucket |-> WalkBuckets(d, b, Tail(parts))]

\* the loop of getOrCreateBoltBucket over parts[1:]: [d, b, err]
RECURSIVE CreateBuckets(_, _, _)
CreateBuckets(d, b, rest) ==
    IF rest = <<>> THEN [d |-> d, b |-> Some(b), err |-> "nil"]
    ELSE LET c == CreateBucketIfNotExists(d, b, Head(rest))
         IN  IF c.err # "nil" THEN [d |-> c.d, b |-> None, err |-> c.err]
             ELSE CreateBuckets(c.d, Val(c.b), Tail(rest))

\* [panic, d, b, err]
getOrCreateBoltBucket(d, parts) ==
    LET b == TxBucket(d, parts[1])
    IN  IF IsNil(b) THEN [panic |-> TRUE, d |-> d, b |-> None, err |-> "nil"]
        ELSE LET c == CreateBuckets(d, Val(b), Tail(parts))
             IN  [panic |-> FALSE, d |-> c.d, b |-> c.b, err |-> c.err]

\* tx.CreateBucketIfNotExists(name) at the top level of a transaction
TxCreateBucketIfNotExists(d, name) == [d EXCEPT !.bk = @ \cup {<<name>>}]

\* the JSON text "{}" of an empty header: no key/value pair
EmptyObject == <<>>

\* a variant that creates the header bucket without the root record
createHeaderBucketOnly(d) == TxCreateBucketIfNotExists(d, headerBucket)

createHeaderBucketIfNotExists(d) ==
    LET d1 == TxCreateBucketIfNotExists(d, headerBucket)
    IN  IF <<"/">> \notin DOMAIN d1.hb
        THEN [d1 EXCEPT !.hb = [x \in DOMAIN d1.hb \cup {<<"/">>} |->
                                    IF x = <<"/">> THEN EmptyObject ELSE d1.hb[x]]]
        ELSE d1

createRootBucketIfNotExists(d) == TxCreateBucketIfNotExists(d, RootName)

\* the size ceiling of a request body: 1 << 24
MaxContentLength == 16777216

\* the longest request body, in bytes
MaxBodyLen == 2

(***************************************************************************)
(* net/http: headers and the response writer.  A header is a function      *)
(* from canonical keys to the sequence of their values.                    *)
(***************************************************************************)
\* textproto.CanonicalMIMEHeaderKey, on the keys the program uses
CanonicalKey(k) == IF k = "ETag" THEN "Etag" ELSE k

HeaderGet(h, k) ==
    IF CanonicalKey(k) \in DOMAIN h /\ Len(h[CanonicalKey(k)]) > 0
    THEN h[CanonicalKey(k)][1] ELSE ""

HeaderSet(h, k, v) ==
    [x \in DOMAIN h \cup {CanonicalKey(k)} |->
        IF x = CanonicalKey(k) THEN <<v>> ELSE h[x]]

HeaderAdd(h, k, v) ==
    [x \in DOMAIN h \cup {CanonicalKey(k)} |->
        IF x = CanonicalKey(k)
        THEN (IF x \in DOMAIN h THEN Append(h[x], v) ELSE <<v>>)
        ELSE h[x]]

HeaderDel(h, k) == [x \in DOMAIN h \ {CanonicalKey(k)} |-> h[x]]

\* h[k] of the map itself: the values, and none for a missing key
HeaderValues(h, k) == IF k \in DOMAIN h THEN h[k] ELSE <<>>

\* the order in which encoding/json writes the keys of a stored header
JSONKeyOrder ==
    <<"Accept", "Content-Length", "Content-Type", "Etag", "If-Match",
      "If-None-Match", "Last-Modified", "Range", "X-Csrf-Token">>

\* json.Marshal(header): the key/value pairs, keys sorted
JSONMarshal(h) ==
    LET Present(k) == k \in DOMAIN h
        ks == SelectSeq(JSONKeyOrder, Present)
    IN  [i \in 1..Len(ks) |-> <<ks[i], h[ks[i]]>>]

\* json.Unmarshal(text, &header): always a non-nil map for an object
JSONUnmarshal(j) ==
    [k \in {j[i][1] : i \in 1..Len(j)} |->
        (CHOOSE pr \in {j[i] : i \in 1..Len(j)} : pr[1] = k)[2]]

\* the response writer: code = 0 until the status line is written; sent is
\* the header map as it was when the status line was written
\* the response writer of a request that is not a HEAD: contentLength is
\* the length the handler declared when the status was written, -1 for
\* none; written counts the bytes handed to Write against that length
NewResponse ==
    [code |-> 0, hdr |-> EmptyFn, sent |-> EmptyFn, body |-> <<>>,
     head |-> FALSE, contentLength |-> -1, written |-> 0]

\* the response writer net/http hands the handler of the request q
ResponseTo(q) == [NewResponse EXCEPT !.head = (q.method = "HEAD")]

\* the value of a decimal digit, -1 for any other byte
DigitValue(c) ==
    CASE c = "0" -> 0 [] c = "1" -> 1 [] c = "2" -> 2 [] c = "3" -> 3
      [] c = "4" -> 4 [] c = "5" -> 5 [] c = "6" -> 6 [] c = "7" -> 7
      [] c = "8" -> 8 [] c = "9" -> 9 [] OTHER -> -1

RECURSIVE AllDigits(_)
AllDigits(text) ==
    text = "" \/ (DigitValue(Head(text)) >= 0 /\ AllDigits(Tail(text)))

RECURSIVE StripZeros(_)
StripZeros(text) ==
    IF text # "" /\ Head(text) = "0" THEN StripZeros(Tail(text)) ELSE text

\* s <= t for two digit texts of the same length
RECURSIVE DigitsLeq(_, _)
DigitsLeq(s, t) ==
    IF s = "" THEN TRUE
    ELSE IF Head(s) = Head(t) THEN DigitsLeq(Tail(s), Tail(t))
    ELSE DigitValue(Head(s)) < DigitValue(Head(t))

\* the number a digit text spells, its digits added to acc
RECURSIVE DigitsValue(_, _)
DigitsValue(text, acc) ==
    IF text = "" THEN acc
    ELSE DigitsValue(Tail(text), acc * 10 + DigitValue(Head(text)))

\* the length an unsigned digit text without leading zeros spells; one of
\* more than 2147483647 that fits 64 bits is given as 2147483647, which no
\* body of the model reaches; -1 when it does not fit 64 bits
ParseSignificant(sig) ==
    IF Len(sig) < 10 \/ (Len(sig) = 10 /\ DigitsLeq(sig, "2147483647"))
    THEN DigitsValue(sig, 0)
    ELSE IF Len(sig) < 19 \/ (Len(sig) = 19 /\ DigitsLeq(sig, "9223372036854775807"))
    THEN 2147483647
    ELSE -1

\* the length a sign and a digit text spell, -1 for a negative number
ParseSigned(negative, sig) ==
    IF ~negative THEN ParseSignificant(sig)
    ELSE IF sig = "" THEN 0
    ELSE -1

\* the length a sign and the text after it spell, -1 when it is no number
ParseDigits(negative, digits) ==
    IF digits = "" \/ ~AllDigits(digits) THEN -1
    ELSE ParseSigned(negative, StripZeros(digits))

\* strconv.ParseInt(text, 10, 64) as WriteHeader uses it: the length, or -1
\* when the text does not parse or spells a negative number
ParseContentLength(text) ==
    IF text # "" /\ Head(text) \in {"+", "-"}
    THEN ParseDigits(Head(text) = "-", Tail(text))
    ELSE ParseDigits(FALSE, text)

\* the status, the header and the declared length as they are fixed, for the
\* Content-Length text the handler has set and the length cl it parses to.
\* The header to send is copied first; an empty text is skipped, and a text
\* that does not parse is then dropped from the handler's header only
DeclareHeader(w, code, text, cl) ==
    [w EXCEPT !.code = code,
              !.hdr = IF text # "" /\ cl = -1 THEN HeaderDel(@, "Content-Length") ELSE @,
              !.sent = w.hdr,
              !.contentLength = cl]

\* the first call fixes status, header and declared length
WriteHeader(w, code) ==
    IF w.code # 0 THEN w
    ELSE DeclareHeader(w, code, HeaderGet(w.hdr, "Content-Length"),
                       ParseContentLength(HeaderGet(w.hdr, "Content-Length")))

bodyAllowedForStatus(code) == code \notin {204, 304} /\ code >= 200

\* the bytes of a chunk; a listing is written while no Content-Length is
\* declared, and its encoded length is never asked for
ChunkLen(chunk) ==
    CASE "bytes" \in DOMAIN chunk -> Len(chunk.bytes)
      [] "text" \in DOMAIN chunk -> Len(chunk.text)
      [] "line" \in DOMAIN chunk -> Len(chunk.line) + 1

\* what response.Write returns for the chunk
WriteErr(w, chunk) ==
    LET w1 == WriteHeader(w, 200)
    IN  IF ~bodyAllowedForStatus(w1.code) THEN "ErrBodyNotAllowed"
        ELSE IF w1.contentLength # -1
                /\ w1.written + ChunkLen(chunk) > w1.contentLength
        THEN "ErrContentLength"
        ELSE "nil"

\* response.Write of a non-empty chunk: bytes beyond the declared
\* Content-Length are refused, and what is written to the body of a HEAD
\* response is discarded
Write(w, chunk) ==
    LET w1 == WriteHeader(w, 200)
        w2 == IF w1.contentLength = -1 THEN w1
              ELSE [w1 EXCEPT !.written = @ + ChunkLen(chunk)]
    IN  IF ~bodyAllowedForStatus(w1.code) THEN w1
        ELSE IF WriteErr(w, chunk) # "nil" THEN w2
        ELSE IF w2.head THEN w2
        ELSE [w2 EXCEPT !.body = Append(@, chunk)]

SetHeader(w, k, v) == [w EXCEPT !.hdr = HeaderSet(@, k, v)]

\* http.Error
HttpError(w, msg, code) ==
    LET w1 == SetHeader(SetHeader(w, "Content-Type", "text/plain; charset=utf-8"),
                        "X-Content-Type-Options", "nosniff")
    IN  Write(WriteHeader(w1, code), [text |-> msg \o "\n"])

\* the handler returns: a response not yet started is a 200
FinishResponse(w) == WriteHeader(w, 200)

(***************************************************************************)
(* The metadata store.                                                     *)
(***************************************************************************)
headerFieldsToExtract == <<"Content-Type", "Content-Length">>

\* [header, err]: header is nil when the path has no record
getHeaderValue(d, path) ==
    IF IsNil(TxBucket(d, headerBucket))
    THEN [header |-> None, err |-> "ErrBucketNotFound"]
    ELSE IF path \notin DOMAIN d.hb THEN [header |-> None, err |-> "nil"]
    ELSE [header |-> Some(JSONUnmarshal(d.hb[path])), err |-> "nil"]

\* [d, err]
writeHeaderValue(d, path, header) ==
    IF path = <<>> THEN [d |-> d, err |-> "ErrKeyRequired"]
    ELSE [d |-> [d EXCEPT !.hb = [x \in DOMAIN d.hb \cup {path} |->
                                    IF x = path THEN JSONMarshal(header) ELSE d.hb[x]]],
          err |-> "nil"]

\* tx.Bucket(headerBucket).Delete(path)
deleteHeaderValue(d, path) ==
    [d EXCEPT !.hb = [x \in DOMAIN d.hb \ {path} |-> d.hb[x]]]

RECURSIVE AddAll(_, _, _)
AddAll(h, k, vs) ==
    IF vs = <<>> THEN h ELSE AddAll(HeaderAdd(h, k, Head(vs)), k, Tail(vs))

RECURSIVE ExtractFields(_, _, _)
ExtractFields(h, fields, result) ==
    IF fields = <<>> THEN result
    ELSE ExtractFields(h, Tail(fields),
                       AddAll(result, Head(fields), HeaderValues(h, Head(fields))))

\* a variant that keeps none of the request's header fields
extractNothing(h) == EmptyFn

\* a variant that keeps every field of the request
extractAll(h) == h

extractHeader(h) == ExtractFields(h, headerFieldsToExtract, EmptyFn)

\* writeHeader(header, w); ranging over a nil header adds nothing
RECURSIVE AddKeys(_, _, _)
AddKeys(hdr, header, ks) ==
    IF ks = {} THEN hdr
    ELSE LET k == CHOOSE x \in ks : TRUE
         IN  AddKeys(AddAll(hdr, k, header[k]), header, ks \ {k})

writeHeader(header, w) == [w EXCEPT !.hdr = AddKeys(@, header, DOMAIN header)]

(***************************************************************************)
(* The conditional-request evaluator.                                      *)
(***************************************************************************)
SeqHas(vs, P(_)) == \E i \in 1..Len(vs) : P(vs[i])

\* a variant that never matches
noneMatchNever(storedHeader, req) == FALSE

\* whether the ETag matched any of the If-None-Match values
checkIfNoneMatch(storedHeader, req) ==
    LET nm == HeaderValues(req.header, "If-None-Match")
        Hit(m) == m = "*" \/ m = HeaderGet(storedHeader, "ETag")
    IN  Len(nm) > 0 /\ SeqHas(nm, Hit)

\* a variant in which any If-Match fails when there is no stored record
ifMatchNeedsRecord(header, req) ==
    LET matches == HeaderValues(req.header, "If-Match")
        eTag == IF IsNil(header) THEN "" ELSE HeaderGet(Val(header), "ETag")
        Hit(m) == eTag = m \/ m = "*"
    IN  IF "If-Match" \notin DOMAIN req.header THEN TRUE
        ELSE eTag # "" /\ SeqHas(matches, Hit)

\* header is the stored record, nil (None) when there is none
checkIfMatch(header, req) ==
    LET matches == HeaderValues(req.header, "If-Match")
        Star(m) == m = "*"
    IN  IF IsNil(header) THEN ~SeqHas(matches, Star)
        ELSE IF "If-Match" \notin DOMAIN req.header THEN TRUE
        ELSE LET eTag == HeaderGet(Val(header), "ETag")
                 Hit(m) == eTag = m \/ m = "*"
             IN  eTag # "" /\ SeqHas(matches, Hit)

\* [bad, w]
\* a variant that lets every request through
acceptAllHeaders(w, req) == [bad |-> FALSE, w |-> w]

badPutOrDeleteHeaders(w, req) ==
    IF req.ContentLength > MaxContentLength
    THEN [bad |-> TRUE, w |-> HttpError(w, "Request too large.", 400)]
    ELSE IF HeaderGet(req.header, "If-None-Match") # ""
    THEN [bad |-> TRUE, w |-> HttpError(w, "Precondition failed.", 412)]
    ELSE [bad |-> FALSE, w |-> w]

(***************************************************************************)
(* The range server.  The Range header is parsed by the ranger package;    *)
(* RangeSyntax gives, for each header text of the model, what it denotes.  *)
(***************************************************************************)
RangeSyntax ==
    [t \in {"bytes=0-0", "bytes=1-1,0-0", "bytes=0-1000", "runes=0-0",
            "bytes=0-2", "bytes=1-2,0-1", "bytes=1-1,1-1", "bytes=0-0,2-3"} |->
        CASE t = "bytes=0-0" -> [unit |-> "bytes", spans |-> <<[Start |-> 0, Stop |-> 0]>>]
          [] t = "bytes=0-2" -> [unit |-> "bytes", spans |-> <<[Start |-> 0, Stop |-> 2]>>]
          [] t = "bytes=1-2,0-1" ->
                [unit |-> "bytes",
                 spans |-> <<[Start |-> 1, Stop |-> 2], [Start |-> 0, Stop |-> 1]>>]
          [] t = "bytes=1-1,1-1" ->
                [unit |-> "bytes",
                 spans |-> <<[Start |-> 1, Stop |-> 1], [Start |-> 1, Stop |-> 1]>>]
          [] t = "bytes=0-0,2-3" ->
                [unit |-> "bytes",
                 spans |-> <<[Start |-> 0, Stop |-> 0], [Start |-> 2, Stop |-> 3]>>]
          [] t = "bytes=1-1,0-0" ->
                [unit |-> "bytes",
                 spans |-> <<[Start |-> 1, Stop |-> 1], [Start |-> 0, Stop |-> 0]>>]
          [] t = "bytes=0-1000" ->
                [unit |-> "bytes", spans |-> <<[Start |-> 0, Stop |-> 1000]>>]
          [] t = "runes=0-0" -> [unit |-> "runes", spans |-> <<[Start |-> 0, Stop |-> 0]>>]]

\* ranger.ParseHeader(header, length): [ranges, err]
rangerParseHeader(h, length) ==
    LET r == RangeSyntax[HeaderGet(h, "Range")]
        Bad(sp) == sp.Start > sp.Stop \/ sp.Stop >= length
    IN  IF r.unit # "bytes" THEN [ranges |-> <<>>, err |-> "bad range unit"]
        ELSE IF r.spans = <<>> \/ SeqHas(r.spans, Bad)
        THEN [ranges |-> <<>>, err |-> "ranger.Error"]
        ELSE [ranges |-> r.spans, err |-> "nil"]

\* a variant that writes the first span only
WriteFirstRange(w, value, ranges) ==
    IF ranges = <<>> THEN w
    ELSE Write(w, [bytes |-> SubSeq(value, Head(ranges).Start + 1,
                                    Head(ranges).Stop + 1)])

\* whether value[r.Start : r.Stop+1] is a slice Go can take
SliceInBounds(value, r) ==
    0 <= r.Start /\ r.Start <= r.Stop + 1 /\ r.Stop + 1 <= Len(value)

\* one slice of the value as a chunk
RangeChunk(value, r) == [bytes |-> SubSeq(value, r.Start + 1, r.Stop + 1)]

\* the loop over ranges; a slice out of bounds is a run-time panic, and
\* the first write that fails ends the loop
RECURSIVE WriteRanges(_, _, _)
WriteRanges(w, value, ranges) ==
    IF ranges = <<>> THEN w
    ELSE IF RangeChunk(value, Head(ranges)).bytes # <<>>
            /\ WriteErr(w, RangeChunk(value, Head(ranges))) # "nil"
    THEN Write(w, RangeChunk(value, Head(ranges)))
    ELSE WriteRanges(IF RangeChunk(value, Head(ranges)).bytes = <<>>
                     THEN WriteHeader(w, 200)
                     ELSE Write(w, RangeChunk(value, Head(ranges))),
                     value, Tail(ranges))

\* the error the loop over ranges returns
RECURSIVE WriteRangesErr(_, _, _)
WriteRangesErr(w, value, ranges) ==
    IF ranges = <<>> THEN "nil"
    ELSE IF RangeChunk(value, Head(ranges)).bytes = <<>>
    THEN WriteRangesErr(WriteHeader(w, 200), value, Tail(ranges))
    ELSE IF WriteErr(w, RangeChunk(value, Head(ranges))) # "nil"
    THEN WriteErr(w, RangeChunk(value, Head(ranges)))
    ELSE WriteRangesErr(Write(w, RangeChunk(value, Head(ranges))), value, Tail(ranges))

(***************************************************************************)
(* The handlers.  Each function below is the closure a handler passes to   *)
(* db.View or db.Update, applied to the transaction's database state d     *)
(* and the response writer w; it returns what the closure leaves behind.   *)
(***************************************************************************)
ButLast(parts) == SubSeq(parts, 1, Len(parts) - 1)

Last(parts) == parts[Len(parts)]

\* the closure of getBucketOrValue: [w, err, keys, panic]; keys is nil or
\* the listing to write after the transaction
getBucketOrValueTx(d, req, w) ==
    LET parts == splitPath(req.path)
        hv == getHeaderValue(d, req.path)
        header == hv.header
        Out(w1, err, keys) == [w |-> w1, err |-> err, keys |-> keys, panic |-> FALSE]
    IN
    IF hv.err # "nil" THEN Out(w, "couldn't get header", None)
    ELSE IF ~IsNil(header) /\ checkIfNoneMatch(Val(header), req)
    THEN Out(WriteHeader(writeHeader(HeaderSet(EmptyFn, "ETag",
                                               HeaderGet(Val(header), "ETag")), w),
                         304),
             "nil", None)
    ELSE
    LET p == IF Len(parts) > 1 THEN ButLast(parts) ELSE parts
        gb == getBoltBucket(d, p)
    IN
    IF gb.panic THEN [w |-> w, err |-> "nil", keys |-> None, panic |-> TRUE]
    ELSE IF IsNil(gb.bucket) THEN Out(w, "ErrBucketNotFound", None)
    ELSE IF Len(parts) = 1 THEN Out(w, "nil", Some(listKeys(d, Val(gb.bucket))))
    ELSE
    LET bv == getBoltBucketOrValue(d, Val(gb.bucket), Last(parts))
    IN
    IF IsNil(bv.bucket) /\ IsNil(bv.value) THEN Out(w, "ErrBucketNotFound", None)
    ELSE IF ~IsNil(bv.bucket) THEN Out(w, "nil", Some(listKeys(d, Val(bv.bucket))))
    ELSE
    LET value == Val(bv.value)
    IN
    IF "Range" \in DOMAIN req.header
    THEN LET pr == rangerParseHeader(req.header, Len(value))
         IN  IF pr.err = "ranger.Error" THEN Out(w, "ranger.Error", None)
             ELSE IF pr.err # "nil" THEN Out(w, "errBadRequest", None)
             ELSE LET h2 == IF IsNil(header) THEN EmptyFn
                            ELSE HeaderDel(HeaderDel(Val(header), "ETag"),
                                           "Content-Length")
                      w1 == writeHeader(h2, WriteHeader(w, 206))
                      InBounds(r) == SliceInBounds(value, r)
                  IN  IF Len(SelectSeq(pr.ranges, InBounds)) = Len(pr.ranges)
                      THEN Out(WriteRanges(w1, value, pr.ranges),
                               WriteRangesErr(w1, value, pr.ranges), None)
                      ELSE [w |-> w1, err |-> "nil", keys |-> None, panic |-> TRUE]
    ELSE LET h2 == IF IsNil(header) THEN EmptyFn ELSE Val(header)
         IN  Out(Write(writeHeader(h2, w), [bytes |-> value]),
                 WriteErr(writeHeader(h2, w), [bytes |-> value]), None)

\* the closure of getHeader: [header, err]
getHeaderTx(d, req) == getHeaderValue(d, req.path)

\* the closure of putBucketOrValue at time now: [d, w, err, msg, status, panic];
\* d is the transaction's state as the closure leaves it, failed or not
putBucketOrValueTx(d, req, w, now) ==
    LET parts0 == splitPath(req.path)
        key == Last(parts0)
        hasBody == req.ContentLength > 0
        hv == getHeaderValue(d, req.path)
        header == hv.header
        alreadyExists == hasBody /\ ~IsNil(header)
        parts == IF hasBody THEN ButLast(parts0) ELSE parts0
        Fail(d1, err, msg, status) ==
            [d |-> d1, w |-> w, err |-> err, msg |-> msg, status |-> status,
             panic |-> FALSE]
        Panic(d1) ==
            [d |-> d1, w |-> w, err |-> "nil", msg |-> "Out of cheese.",
             status |-> 500, panic |-> TRUE]
    IN
    IF hasBody /\ hv.err # "nil" THEN Fail(d, hv.err, "Out of cheese.", 500)
    ELSE IF hasBody /\ ~checkIfMatch(header, req)
    THEN Fail(d, "precondition failed", "Precondition failed.", 412)
    ELSE IF hasBody /\ Len(parts) = 0
    THEN Fail(d, "request to put value in root bucket",
              "Cannot PUT a value in the root bucket.", 400)
    ELSE
    LET gc == getOrCreateBoltBucket(d, parts)
    IN
    IF gc.panic THEN Panic(d)
    ELSE IF gc.err # "nil" THEN Fail(gc.d, gc.err, "Error processing request.", 500)
    ELSE IF ~hasBody
    THEN [d |-> gc.d, w |-> w, err |-> "nil", msg |-> "Out of cheese.",
          status |-> 500, panic |-> FALSE]
    ELSE IF Len(req.body) < req.ContentLength
    THEN Fail(gc.d, "ErrUnexpectedEOF", "Bad request.", 400)
    ELSE
    LET buf == SubSeq(req.body, 1, req.ContentLength)
        bp == BucketPut(gc.d, Val(gc.b), key, buf)
    IN
    IF bp.err # "nil" THEN Fail(bp.d, bp.err, "Out of cheese.", 500)
    ELSE
    LET eTag == etag(buf)
        hdr == HeaderSet(HeaderSet(extractHeader(req.header), "ETag", eTag),
                         "Last-Modified", now)
        wh == writeHeaderValue(bp.d, req.path, hdr)
    IN
    \* return tx.Rollback() inside db.Update: a managed transaction panics
    IF wh.err # "nil" THEN Panic(wh.d)
    ELSE
    LET w1 == SetHeader(SetHeader(w, "ETag", eTag), "Last-Modified", now)
        w2 == IF ~alreadyExists
              THEN WriteHeader(SetHeader(w1, "Location", req.path), 201)
              ELSE WriteHeader(w1, 204)
    IN  [d |-> wh.d, w |-> w2, err |-> "nil", msg |-> "Out of cheese.",
         status |-> 500, panic |-> FALSE]

\* the closure of deleteBucketOrKey: [d, err, msg, status, panic]
deleteBucketOrKeyTx(d, req) ==
    LET parts == splitPath(req.path)
        hv == getHeaderValue(d, req.path)
        header == hv.header
        Fail(err, msg, status) ==
            [d |-> d, err |-> err, msg |-> msg, status |-> status, panic |-> FALSE]
        Panic(d1) ==
            [d |-> d1, err |-> "nil", msg |-> "Out of cheese.", status |-> 500,
             panic |-> TRUE]
    IN
    IF hv.err # "nil" THEN Fail(hv.err, "Out of cheese.", 500)
    ELSE IF ~checkIfMatch(header, req)
    THEN Fail("precondition failed", "Precondition failed.", 412)
    ELSE IF IsNil(header) THEN Fail("Not found", "Not found.", 404)
    ELSE
    LET gb == getBoltBucket(d, ButLast(parts))
    IN
    IF gb.panic THEN Panic(d)
    ELSE IF IsNil(gb.bucket)
    THEN Fail("ErrBucketNotFound", "Internal server error.", 500)
    ELSE
    LET d1 == deleteHeaderValue(d, req.path)
        bd == BucketDelete(d1, Val(gb.bucket), Last(parts))
    IN
    \* return tx.Rollback() inside db.Update: a managed transaction panics
    IF bd.err # "nil" THEN Panic(bd.d)
    ELSE [d |-> bd.d, err |-> "nil", msg |-> "Out of cheese.", status |-> 500,
          panic |-> FALSE]

(***************************************************************************)
(* The content negotiator.  The Accept header is a character sequence, so  *)
(* that its prefixes can be tested.                                        *)
(***************************************************************************)
HasPrefix(t, pre) == Len(t) >= Len(pre) /\ SubSeq(t, 1, Len(pre)) = pre

TextAny == <<"t", "e", "x", "t", "/", "*">>

TextPlain == <<"t", "e", "x", "t", "/", "p", "l", "a", "i", "n">>

AnyAny == <<"*", "/", "*">>

TextHtml == <<"t", "e", "x", "t", "/", "h", "t", "m", "l">>

AppJson == <<"a", "p", "p", "l", "i", "c", "a", "t", "i", "o", "n", "/",
             "j", "s", "o", "n">>

AppXml == <<"a", "p", "p", "l", "i", "c", "a", "t", "i", "o", "n", "/",
            "x", "m", "l">>

\* a variant that takes every text type for plain text
isTextLoose(hdr) ==
    hdr = <<>> \/ HasPrefix(hdr, <<"t", "e", "x", "t", "/">>) \/ HasPrefix(hdr, AnyAny)

isText(hdr) ==
    hdr = <<>> \/ HasPrefix(hdr, TextAny) \/ HasPrefix(hdr, TextPlain)
        \/ HasPrefix(hdr, AnyAny)

RECURSIVE PrintLines(_, _)
PrintLines(w, keys) ==
    IF keys = <<>> THEN w
    ELSE PrintLines(Write(w, [line |-> Head(keys)]), Tail(keys))

\* writeKeys: a body chunk is [line |-> k] for a key and a newline,
\* [json |-> keys] for the encoded array, [xmlHeader |-> TRUE] and
\* [xml |-> keys] for the XML document, [html |-> KeyPkg] for the page
writeKeys(w, req, keys) ==
    LET accept == IF "Accept" \in DOMAIN req.header /\ Len(req.header["Accept"]) > 0
                  THEN req.header["Accept"][1] ELSE <<>>
    IN  IF isText(accept) THEN PrintLines(w, keys)
        ELSE IF HasPrefix(accept, AppJson)
        THEN Write(SetHeader(w, "Content-Type", "application/json; charset=utf-8"),
                   [json |-> keys])
        ELSE IF HasPrefix(accept, AppXml)
        THEN Write(Write(SetHeader(w, "Content-Type", "application/xml; charset=utf-8"),
                         [xmlHeader |-> TRUE]),
                   [xml |-> keys])
        ELSE IF HasPrefix(accept, TextHtml)
        THEN Write(w, [html |-> [Path |-> req.path, Keys |-> keys]])
        ELSE w

(***************************************************************************)
(* The requests of the model.                                              *)
(***************************************************************************)
\* the request slots (connections served at the same time) of SpecConc
NumSlots == 2

\* the bodies: "f", "ff", ...
Bodies == {[i \in 1..n |-> 102] : n \in 1..MaxBodyLen}

BodyF == <<102>>

PRoot == <<"/">>

PRoot2 == <<"/", "/">>

PA == <<"/", "a">>

PASlash == <<"/", "a", "/">>

PAB == <<"/", "a", "/", "b">>

PASlashB == <<"/", "a", "/", "/", "b">>

\* the request paths: the root and an alias of it, a path directly below
\* the root and its trailing-slash alias, a nested path and its
\* repeated-slash alias
Paths == {PRoot, PRoot2, PA, PASlash, PAB, PASlashB}

\* what time.Now() may return, formatted as RFC1123Z
Clock == {"Sat, 04 Mar 2017 05:56:10 +0000"}

CType == "text/html"

HeaderOf(S) == [k \in {pr[1] : pr \in S} |-> (CHOOSE pr \in S : pr[1] = k)[2]]

\* a request: optional header values are nil (None) or Some(values);
\* cl is req.ContentLength (-1: unknown), body the bytes the client delivers
Request(method, path, ifMatch, ifNoneMatch, ctype, cl, body) ==
    [method |-> method, path |-> EscapedPath(path), ContentLength |-> cl,
     body |-> body,
     header |-> HeaderOf(
        (IF IsNil(ifMatch) THEN {} ELSE {<<"If-Match", Val(ifMatch)>>})
        \cup (IF IsNil(ifNoneMatch) THEN {} ELSE {<<"If-None-Match", Val(ifNoneMatch)>>})
        \cup (IF IsNil(ctype) THEN {} ELSE {<<"Content-Type", <<Val(ctype)>> >>})
        \cup (IF cl > 0 \/ (cl = 0 /\ method = "PUT")
              THEN {<<"Content-Length", <<Itoa(cl)>> >>} ELSE {}))]

NoRequest == Request("", <<>>, None, None, None, 0, <<>>)

\* the request q carrying the header field k with the values vs as well
With(q, k, vs) ==
    [q EXCEPT !.header = [x \in DOMAIN q.header \cup {k} |->
                            IF x = k THEN vs ELSE q.header[x]]]

IfMatchChoices == {None, Some(<<etag(BodyF)>>), Some(<<"*">>)}

PutRequests ==
    {Request("PUT", p, im, None, Some(CType), Len(b), b) :
        p \in Paths, im \in IfMatchChoices, b \in Bodies}
    \cup {Request("PUT", p, im, None, None, 0, <<>>) :
            p \in Paths, im \in {None, Some(<<"*">>)}}
    \cup {Request("PUT", p, None, None, Some(CType), 2, BodyF) : p \in Paths}
    \cup {Request("PUT", PAB, None, None, Some(CType), -1, BodyF),
          Request("PUT", PA, None, None, None, 1, BodyF),
          Request("PUT", PA, None, None, Some(CType), MaxContentLength + 1, BodyF),
          Request("PUT", PA, None, None, Some(CType), MaxContentLength, BodyF),
          Request("PUT", PA, None, Some(<<"*">>), Some(CType), 1, BodyF)}

DeleteRequests ==
    {Request("DELETE", p, im, None, None, 0, <<>>) :
        p \in Paths, im \in IfMatchChoices}
    \cup {Request("DELETE", PA, None, Some(<<"*">>), None, 0, <<>>),
          Request("DELETE", PRoot, None, Some(<<"*">>), None, 0, <<>>),
          Request("DELETE", PA, None, Some(<<"">>), None, 0, <<>>),
          Request("DELETE", PA, None, None, None, MaxContentLength, <<>>),
          Request("DELETE", PA, None, None, None, MaxContentLength + 1, <<>>)}

GetRequests ==
    {Request("GET", p, None, inm, None, 0, <<>>) :
        p \in Paths, inm \in {None, Some(<<etag(BodyF)>>), Some(<<"*">>)}}

HeadRequests == {Request("HEAD", p, None, None, None, 0, <<>>) : p \in Paths}

OtherRequests ==
    {Request(m, PA, None, None, None, 0, <<>>) : m \in {"OPTIONS", "POST", "BREW"}}

Requests ==
    PutRequests \cup DeleteRequests \cup GetRequests \cup HeadRequests
        \cup OtherRequests

\* the requests of the concurrent specification: readers and conditional
\* writers of one node, and one request for every other way through the router
ConcRequests ==
    {Request("PUT", PA, None, None, Some(CType), 1, BodyF),
     Request("PUT", PA, Some(<<etag(BodyF)>>), None, Some(CType), 2, <<102, 102>>),
     Request("PUT", PASlash, None, None, Some(CType), 1, BodyF),
     Request("DELETE", PA, Some(<<etag(BodyF)>>), None, None, 0, <<>>),
     Request("DELETE", PRoot, None, None, None, 0, <<>>),
     Request("GET", PA, None, None, None, 0, <<>>),
     Request("HEAD", PA, None, None, None, 0, <<>>),
     Request("OPTIONS", PA, None, None, None, 0, <<>>)}

\* the body "fob": three different bytes
BodyFob == <<102, 111, 98>>

PFoo == <<"/", "f", "o", "o">>

PBar == <<"/", "b", "a", "r">>

PBaz == <<"/", "b", "a", "z">>

PBarA == <<"/", "b", "a", "r", "/", "a">>

\* the decoded path of GET /%00headers and of a path with a raw NUL byte
PNul == <<"/", "NUL", "h", "e", "a", "d", "e", "r", "s">>

ImagePng == <<"i", "m", "a", "g", "e", "/", "p", "n", "g">>

\* the Accept values: the recognised ones, two with parameters after the
\* recognised prefix, an unknown type and a proper prefix of a known one
AcceptValues ==
    {<<>>, AnyAny, TextAny, TextPlain, TextHtml, AppJson, AppXml, ImagePng,
     TextPlain \o <<";", "q", "=", "1">>, AppJson \o <<",">> \o TextPlain,
     <<"t", "e", "x", "t", "/">>}

RangeValues ==
    {"bytes=0-2", "bytes=1-2,0-1", "bytes=1-1,1-1", "bytes=0-0,2-3",
     "bytes=0-1000", "runes=0-0"}

\* a PUT whose client sends an ETag and a Last-Modified of its own and a
\* field the server knows nothing of
ForgedPut(p) ==
    With(With(With(Request("PUT", p, None, None, Some(CType), 3, BodyFob),
                   "Etag", <<"forged">>),
              "Last-Modified", <<"Thu, 01 Jan 1970 00:00:00 +0000">>),
         "X-Csrf-Token", <<"token">>)

\* the requests of the content specification: values and containers next
\* to each other under the root, listings in every representation, ranges
\* of a value, and the path that spells the name of the header bucket
ContentRequests ==
    {Request("PUT", p, None, None, Some(CType), 3, BodyFob) :
        p \in {PFoo, PBar, PBaz, PBarA, PNul}}
    \cup {Request("PUT", p, None, None, None, 0, <<>>) : p \in {PBar, PBarA, PNul}}
    \cup {Request("DELETE", p, None, None, None, 0, <<>>) :
            p \in {PRoot, PFoo, PBar, PNul}}
    \cup {Request(m, p, None, None, None, 0, <<>>) :
            m \in {"GET", "HEAD"}, p \in {PRoot, PFoo, PBar, PNul}}
    \cup {With(Request("GET", p, None, None, None, 0, <<>>), "Accept", <<a>>) :
            p \in {PRoot, PBar}, a \in AcceptValues}
    \cup {With(Request("GET", p, None, None, None, 0, <<>>), "Range", <<t>>) :
            p \in {PFoo, PBar}, t \in RangeValues}
    \cup {ForgedPut(p) : p \in {PFoo, PBaz}}
    \cup {Request("GET", PFoo, None, Some(<<"*">>), None, 0, <<>>)}
    \cup {Request("OPTIONS", PRoot, None, None, None, 0, <<>>)}

\* the longest path of the path specification, in bytes
MaxPathLen == 4

\* every path of at most MaxPathLen bytes written with "/", "a" and "b"
SlashPaths ==
    {<<"/">> \o t : t \in UNION {[1..k -> {"/", "a", "b"}] : k \in 0..(MaxPathLen - 1)}}

\* /a%2fb: the path /a/b with its second slash percent-encoded
PEscSlash == <<"/", "a", "%", "2", "f", "b">>

\* /a/bb: a name that follows b in the container /a
PABB == <<"/", "a", "/", "b", "b">>

\* the requests of the path specification: a value at /a/b written and
\* deleted through two spellings, one at /a%2fb, a container at /a/bb,
\* and reads of every spelling of a path
PathRequests ==
    {Request("PUT", p, None, None, Some(CType), 1, BodyF) : p \in {PAB, PASlashB, PEscSlash}}
    \cup {Request("PUT", PABB, None, None, None, 0, <<>>)}
    \cup {Request("DELETE", p, None, None, None, 0, <<>>) : p \in {PAB, PASlashB}}
    \cup {Request(m, p, None, None, None, 0, <<>>) :
            m \in {"GET", "HEAD"}, p \in SlashPaths \cup {PEscSlash}}
    \cup {Request("DELETE", p, None, None, None, 0, <<>>) : p \in {PRoot, PEscSlash}}
    \cup {Request("OPTIONS", PRoot, None, None, None, 0, <<>>)}

(***************************************************************************)
(* The state.                                                              *)
(*   db    the committed database                                          *)
(*   wr    the slot whose db.Update holds the writer lock, 0 for none      *)
(*   wdb   the database as the open writable transaction sees it           *)
(*   pc    where each slot's request is                                    *)
(*   req   each slot's request                                             *)
(*   resp  each slot's response writer                                     *)
(*   out   what the closure of each slot's handler left in the handler's   *)
(*         variables: err, msg, status, keys, header, panic                *)
(*   hist  bookkeeping for the properties: txs transactions opened by the  *)
(*         request, pre the committed database when its transaction began, *)
(*         mutated whether its commit changed the database, dirtied        *)
(*         whether its closure changed the transaction's state, tag the    *)
(*         ETag stored for its path when the request was received, overlap *)
(*         the slots whose current request was in flight together with it  *)
(*   gone  bookkeeping for the properties: the path of the last committed  *)
(*         DELETE, for as long as no PUT to that path has committed        *)
(***************************************************************************)
VARIABLES db, wr, wdb, pc, req, resp, out, hist, gone

vars == <<db, wr, wdb, pc, req, resp, out, hist, gone>>

Slots == 1..NumSlots

NoOut == [err |-> "nil", msg |-> "", status |-> 0, keys |-> None,
          header |-> None, panic |-> FALSE]

NoHist == [txs |-> 0, pre |-> EmptyDB, mutated |-> FALSE, dirtied |-> FALSE,
           tag |-> "", overlap |-> {}]

\* main: the header bucket and the root bucket are created on an empty store
Bootstrap(d) == createRootBucketIfNotExists(createHeaderBucketIfNotExists(d))

Init ==
    /\ db = Bootstrap(EmptyDB)
    /\ wr = 0
    /\ wdb = db
    /\ pc = [r \in Slots |-> "IDLE"]
    /\ req = [r \in Slots |-> NoRequest]
    /\ resp = [r \in Slots |-> NewResponse]
    /\ out = [r \in Slots |-> NoOut]
    /\ hist = [r \in Slots |-> NoHist]
    /\ gone = {}

StoredTag(d, path) ==
    LET hv == getHeaderValue(d, path)
    IN  IF IsNil(hv.header) THEN "" ELSE HeaderGet(Val(hv.header), "ETag")

InFlight(r) == pc[r] \notin {"IDLE", "RESPONDED"}

\* a connection delivers a request of the set R
Receive(r, R) ==
    /\ pc[r] \in {"IDLE", "RESPONDED"}
    /\ \E q \in R :
        /\ req' = [req EXCEPT ![r] = q]
        /\ hist' = [s \in Slots |->
                     IF s = r
                     THEN [NoHist EXCEPT !.tag = StoredTag(db, q.path),
                                         !.overlap = {t \in Slots : InFlight(t)}]
                     ELSE IF InFlight(s)
                     THEN [hist[s] EXCEPT !.overlap = @ \cup {r}]
                     ELSE [hist[s] EXCEPT !.overlap = @ \ {r}]]
    /\ pc' = [pc EXCEPT ![r] = "RECEIVED"]
    /\ resp' = [resp EXCEPT ![r] = ResponseTo(req'[r])]
    /\ out' = [out EXCEPT ![r] = NoOut]
    /\ UNCHANGED <<db, wr, wdb, gone>>

\* a variant of the switch that serves HEAD with the handler of DELETE
handlerHeadDeletes(q) ==
    CASE q.method \in {"HEAD", "DELETE"} -> "deleteBucketOrKey"
      [] q.method = "OPTIONS" -> "options"
      [] q.method = "GET" -> "getBucketOrValue"
      [] q.method = "PUT" -> "putBucketOrValue"
      [] q.method \in {"POST", "PATCH", "TRACE", "CONNECT"} -> "notAllowed"
      [] OTHER -> "badRequest"

\* the handler ServeHTTP switches to
HandlerOf(q) ==
    CASE q.method = "HEAD" -> "getHeader"
      [] q.method = "OPTIONS" -> "options"
      [] q.method = "GET" -> "getBucketOrValue"
      [] q.method = "PUT" -> "putBucketOrValue"
      [] q.method = "DELETE" -> "deleteBucketOrKey"
      [] q.method \in {"POST", "PATCH", "TRACE", "CONNECT"} -> "notAllowed"
      [] OTHER -> "badRequest"

\* router.ServeHTTP: logRequest and the switch on the method
Route(r) ==
    /\ pc[r] = "RECEIVED"
    /\ pc' = [pc EXCEPT ![r] = "ROUTED"]
    /\ UNCHANGED <<db, wr, wdb, req, resp, out, hist, gone>>

\* the cases of ServeHTTP that call no handler
ServeWithoutHandler(r) ==
    /\ pc[r] = "ROUTED"
    /\ HandlerOf(req[r]) \in {"options", "notAllowed", "badRequest"}
    /\ resp' = [resp EXCEPT ![r] =
                 CASE HandlerOf(req[r]) = "options" ->
                        FinishResponse(SetHeader(@, "Allow", "GET,PUT,DELETE,HEAD"))
                   [] HandlerOf(req[r]) = "notAllowed" ->
                        HttpError(SetHeader(@, "Allow", "GET,PUT,DELETE,HEAD"),
                                  "Method not allowed.", 405)
                   [] OTHER -> HttpError(@, "Bad request.", 400)]
    /\ pc' = [pc EXCEPT ![r] = "RESPONDED"]
    /\ UNCHANGED <<db, wr, wdb, req, out, hist, gone>>

IsWrite(q) == HandlerOf(q) \in {"putBucketOrValue", "deleteBucketOrKey"}

IsRead(q) == HandlerOf(q) \in {"getHeader", "getBucketOrValue"}

\* deleteBucketOrKey: len(parts) < 2
DeleteTooShallow(q) ==
    HandlerOf(q) = "deleteBucketOrKey" /\ Len(splitPath(q.path)) < 2

\* putBucketOrValue and deleteBucketOrKey return before opening a transaction
RejectBeforeTx(r) ==
    /\ pc[r] = "ROUTED"
    /\ IsWrite(req[r])
    /\ LET bad == badPutOrDeleteHeaders(resp[r], req[r])
       IN  /\ bad.bad \/ DeleteTooShallow(req[r])
           /\ resp' = [resp EXCEPT ![r] =
                        IF bad.bad THEN bad.w
                        ELSE HttpError(@, "Invalid path.", 400)]
    /\ pc' = [pc EXCEPT ![r] = "RESPONDED"]
    /\ UNCHANGED <<db, wr, wdb, req, out, hist, gone>>

\* what a read-only transaction reads: the committed state when it began
ReadView == db

\* the closure of a reading handler run on d: [w, out]
ViewTx(d, q, w) ==
    IF HandlerOf(q) = "getHeader"
    THEN LET hv == getHeaderTx(d, q)
         IN  [w |-> w, out |-> [NoOut EXCEPT !.err = hv.err, !.header = hv.header]]
    ELSE LET g == getBucketOrValueTx(d, q, w)
         IN  [w |-> g.w,
              out |-> [NoOut EXCEPT !.err = g.err, !.keys = g.keys, !.panic = g.panic]]

\* db.View(fn): the transaction begins and fn runs in it
View(r) ==
    /\ pc[r] = "ROUTED"
    /\ IsRead(req[r])
    /\ LET v == ViewTx(ReadView, req[r], resp[r])
       IN  /\ out' = [out EXCEPT ![r] = v.out]
           /\ resp' = [resp EXCEPT ![r] = v.w]
    /\ hist' = [hist EXCEPT ![r].txs = @ + 1, ![r].pre = db]
    /\ pc' = [pc EXCEPT ![r] = "READ_TX"]
    /\ UNCHANGED <<db, wr, wdb, req, gone>>

\* db.View returns: a read-only transaction is always rolled back
EndView(r) ==
    /\ pc[r] = "READ_TX"
    /\ pc' = [pc EXCEPT ![r] = "ROLLED_BACK"]
    /\ UNCHANGED <<db, wr, wdb, req, resp, out, hist, gone>>

\* a variant without the writer lock
WriterLockIgnored == TRUE

\* db.Begin(true) takes the writer lock: one writable transaction at a time
WriterLockFree == wr = 0

\* the closure of a writing handler run on d at time now: [d, w, out]
UpdateTx(d, q, w, now) ==
    IF HandlerOf(q) = "putBucketOrValue"
    THEN LET u == putBucketOrValueTx(d, q, w, now)
         IN  [d |-> u.d, w |-> u.w,
              out |-> [NoOut EXCEPT !.err = u.err, !.msg = u.msg,
                                    !.status = u.status, !.panic = u.panic]]
    ELSE LET u == deleteBucketOrKeyTx(d, q)
         IN  [d |-> u.d, w |-> w,
              out |-> [NoOut EXCEPT !.err = u.err, !.msg = u.msg,
                                    !.status = u.status, !.panic = u.panic]]

\* db.Update(fn): the transaction begins and fn runs in it
Update(r) ==
    /\ pc[r] = "ROUTED"
    /\ IsWrite(req[r])
    /\ ~badPutOrDeleteHeaders(resp[r], req[r]).bad
    /\ ~DeleteTooShallow(req[r])
    /\ WriterLockFree
    /\ wr' = r
    /\ \E now \in Clock :
        LET u == UpdateTx(db, req[r], resp[r], now)
        IN  /\ wdb' = u.d
            /\ resp' = [resp EXCEPT ![r] = u.w]
            /\ out' = [out EXCEPT ![r] = u.out]
    /\ hist' = [hist EXCEPT ![r].txs = @ + 1, ![r].pre = db,
                            ![r].dirtied = (wdb' # db)]
    /\ pc' = [pc EXCEPT ![r] = "WRITE_TX"]
    /\ UNCHANGED <<db, req, gone>>

\* a variant that commits whatever fn returned
CommitsAlways(o) == TRUE

\* whether db.Update commits: fn returned nil and did not panic
Commits(o) == o.err = "nil" /\ ~o.panic

\* db.Update returns: commit, or roll back (also when fn panicked)
EndUpdate(r) ==
    /\ pc[r] = "WRITE_TX"
    /\ db' = IF Commits(out[r]) THEN wdb ELSE db
    /\ wdb' = db'
    /\ wr' = 0
    /\ hist' = [hist EXCEPT ![r].mutated = (db' # db)]
    /\ gone' = IF ~Commits(out[r]) THEN gone
               ELSE IF req[r].method = "DELETE" THEN {req[r].path}
               ELSE gone \ {req[r].path}
    /\ pc' = [pc EXCEPT ![r] = IF Commits(out[r]) THEN "COMMITTED" ELSE "ROLLED_BACK"]
    /\ UNCHANGED <<req, resp, out>>

\* a variant that answers every error with 500
errorAlways500(err) == [msg |-> "Out of cheese.", status |-> 500]

\* the status getBucketOrValue gives an error of its closure
GetErrorStatus(err) ==
    CASE err = "ErrBucketNotFound" -> [msg |-> "Not found", status |-> 404]
      [] err = "ranger.Error" ->
            [msg |-> "Requested range not satisfiable.", status |-> 416]
      [] err = "errBadRequest" -> [msg |-> "Bad request.", status |-> 400]
      [] OTHER -> [msg |-> "Out of cheese.", status |-> 500]

\* the handler's code after the transaction, up to its return; a panic of
\* the closure unwinds the handler and the connection is closed unanswered
AfterTx(h, q, w, o) ==
    IF o.panic THEN w
    ELSE IF h = "getBucketOrValue"
    THEN IF o.err # "nil"
         THEN HttpError(w, GetErrorStatus(o.err).msg, GetErrorStatus(o.err).status)
         ELSE IF ~IsNil(o.keys) THEN FinishResponse(writeKeys(w, q, Val(o.keys)))
         ELSE FinishResponse(w)
    ELSE IF h = "getHeader"
    THEN IF o.err = "ErrBucketNotFound"
         THEN HttpError(w, "Header bucket not found.", 500)
         ELSE IF o.err # "nil" THEN HttpError(w, "Out of cheese.", 500)
         ELSE IF IsNil(o.header) THEN HttpError(w, "Not found.", 404)
         ELSE FinishResponse(writeHeader(Val(o.header), w))
    ELSE IF h = "putBucketOrValue"
    THEN IF o.err # "nil" THEN HttpError(w, o.msg, o.status) ELSE FinishResponse(w)
    ELSE IF o.err # "nil" THEN HttpError(w, o.msg, o.status) ELSE WriteHeader(w, 204)

Respond(r) ==
    /\ pc[r] \in {"COMMITTED", "ROLLED_BACK"}
    /\ resp' = [resp EXCEPT ![r] = AfterTx(HandlerOf(req[r]), req[r], @, out[r])]
    /\ pc' = [pc EXCEPT ![r] = "RESPONDED"]
    /\ UNCHANGED <<db, wr, wdb, req, out, hist, gone>>

Step(r) ==
    \/ Route(r)
    \/ ServeWithoutHandler(r)
    \/ RejectBeforeTx(r)
    \/ View(r)
    \/ EndView(r)
    \/ Update(r)
    \/ EndUpdate(r)
    \/ Respond(r)

\* one connection at a time, any request
Next == Receive(1, Requests) \/ Step(1)

Spec == Init /\ [][Next]_vars

\* NumSlots connections served at the same time
NextConc == \E r \in Slots : Receive(r, ConcRequests) \/ Step(r)

SpecConc == Init /\ [][NextConc]_vars

\* one connection at a time, the requests about content
NextContent == Receive(1, ContentRequests) \/ Step(1)

SpecContent == Init /\ [][NextContent]_vars

\* one connection at a time, the requests about paths
NextPaths == Receive(1, PathRequests) \/ Step(1)

SpecPaths == Init /\ [][NextPaths]_vars


(***************************************************************************)
(* The properties.                                                         *)
(***************************************************************************)
Done(r) == pc[r] = "RESPONDED"

PutWithBody(q) == q.method = "PUT" /\ q.ContentLength > 0

IsWriteMethod(q) == q.method \in {"PUT", "DELETE"}

\* the bytes a PUT stores: the declared length of the delivered body
PutBytes(q) == SubSeq(q.body, 1, q.ContentLength)

\* the committed database a request of the sequential specification found
PreDB(r) == IF hist[r].txs = 0 THEN db ELSE hist[r].pre

PlainGet(path) == Request("GET", path, None, None, None, 0, <<>>)

PlainHead(path) == Request("HEAD", path, None, None, None, 0, <<>>)

\* the response to a reading request served alone on the database d
ServeRead(d, q) ==
    LET v == ViewTx(d, q, ResponseTo(q))
    IN  AfterTx(HandlerOf(q), q, v.w, v.out)

\* the response carries one value as its body
HasValueBody(w) == Len(w.body) = 1 /\ "bytes" \in DOMAIN w.body[1]

NonRootPaths == {P \in Paths : Len(splitPath(P)) > 1}

\* C1: in every reachable state, for every non-root path P, a metadata
\* record keyed by P exists if and only if the tree holds a value at the
\* node P resolves to.
C1_RecordIffValue ==
    \A P \in NonRootPaths :
        (P \in DOMAIN db.hb) <=> (splitPath(P) \in DOMAIN db.val)

\* a write that carries If-Match equal to the ETag stored when it was issued;
\* a PUT's body has another fingerprint
ConditionalWrite(r) ==
    /\ Done(r)
    /\ hist[r].tag # ""
    /\ HeaderValues(req[r].header, "If-Match") = <<hist[r].tag>>
    /\ \/ req[r].method = "DELETE"
       \/ PutWithBody(req[r]) /\ etag(PutBytes(req[r])) # hist[r].tag

\* C2: of two concurrent writes on the same path (PUT with a body or
\* DELETE) that both carry If-Match equal to the ETag stored when they were
\* issued, at most one mutates the stored state; the other is refused.
C2_AtMostOneConditionalWrite ==
    \A r1, r2 \in Slots :
        (/\ r1 # r2
         /\ r2 \in hist[r1].overlap
         /\ ConditionalWrite(r1)
         /\ ConditionalWrite(r2)
         /\ req[r1].path = req[r2].path)
        => /\ ~(hist[r1].mutated /\ hist[r2].mutated)
           /\ resp[r1].code >= 400 \/ resp[r2].code >= 400

\* the If-Match precondition of q does not hold against the record stored in
\* d: a stale ETag for an existing record, or "*" when there is no record
PreconditionFails(d, q) ==
    /\ "If-Match" \in DOMAIN q.header
    /\ LET rec == getHeaderValue(d, q.path).header
           listed == {q.header["If-Match"][i] : i \in 1..Len(q.header["If-Match"])}
       IN  IF IsNil(rec) THEN "*" \in listed
           ELSE "*" \notin listed /\ HeaderGet(Val(rec), "ETag") \notin listed

\* C3: a PUT (with or without a body) or DELETE of a non-root path whose
\* If-Match precondition does not hold against the stored record is
\* answered 412 and changes neither the tree nor any metadata record.
C3_FailedPreconditionIs412 ==
    \A r \in Slots :
        (/\ Done(r)
         /\ IsWriteMethod(req[r])
         /\ req[r].path \in NonRootPaths
         /\ PreconditionFails(PreDB(r), req[r]))
        => resp[r].code = 412 /\ ~hist[r].mutated /\ db = PreDB(r)

\* C4: after a successful PUT of a non-empty body V with Content-Type T to
\* a path P, the GET of P that follows immediately answers 200 with body
\* exactly V, Content-Type T and Content-Length len(V).
C4_PutGetRoundTrip ==
    \A r \in Slots :
        (/\ Done(r)
         /\ PutWithBody(req[r])
         /\ resp[r].code \in {201, 204}
         /\ "Content-Type" \in DOMAIN req[r].header)
        => LET g == ServeRead(db, PlainGet(req[r].path))
           IN  /\ g.code = 200
               /\ g.body = <<[bytes |-> PutBytes(req[r])]>>
               /\ HeaderValues(g.sent, "Content-Type") = req[r].header["Content-Type"]
               /\ HeaderValues(g.sent, "Content-Length")
                    = <<Itoa(Len(PutBytes(req[r])))>>

\* a PUT of two bytes has overwritten a value through a path with a repeated
\* slash
C4_Witness ==
    \E r \in Slots :
        /\ Done(r)
        /\ PutWithBody(req[r])
        /\ resp[r].code = 204
        /\ req[r].path = PASlashB
        /\ Len(PutBytes(req[r])) = 2

\* C5: every GET answered 200 with a full value body B carries an ETag
\* header equal to etag(B), and HEAD on the same path reports the same ETag.
C5_ETagDescribesBody ==
    \A r \in Slots :
        (/\ Done(r)
         /\ req[r].method = "GET"
         /\ resp[r].code = 200
         /\ HasValueBody(resp[r]))
        => /\ HeaderGet(resp[r].sent, "ETag") = etag(resp[r].body[1].bytes)
           /\ HeaderGet(ServeRead(db, PlainHead(req[r].path)).sent, "ETag")
                = etag(resp[r].body[1].bytes)


\* C6: a PUT or DELETE answered with a 4xx or 5xx status leaves the tree and
\* all metadata records exactly as they were before the request, including
\* containers the request created before it failed.
C6_FailedWriteChangesNothing ==
    \A r \in Slots :
        (Done(r) /\ IsWriteMethod(req[r]) /\ resp[r].code >= 400)
        => ~hist[r].mutated /\ db = PreDB(r)

\* a PUT created a container, then failed on a body shorter than declared
C6_Witness ==
    \E r \in Slots :
        /\ Done(r)
        /\ req[r].method = "PUT"
        /\ resp[r].code = 400
        /\ hist[r].dirtied
        /\ Len(req[r].body) < req[r].ContentLength

\* C7: no part of a request's response (status or body) is produced while
\* its transaction is open; a PUT's 201/204 is emitted only after commit.
C7_ResponseAfterTransaction ==
    \A r \in Slots :
        pc[r] \in {"READ_TX", "WRITE_TX"}
        => resp[r].code = 0 /\ resp[r].body = <<>>

\* C8: a GET served while PUT and DELETE requests are in flight returns a
\* value and metadata of one write: the ETag and the Content-Length that
\* come with the body B are those of B, never those of another write.
C8_BodyAndMetadataOfOneWrite ==
    \A r \in Slots :
        (/\ Done(r)
         /\ req[r].method = "GET"
         /\ resp[r].code = 200
         /\ HasValueBody(resp[r]))
        => /\ "Content-Length" \in DOMAIN resp[r].sent
                => resp[r].sent["Content-Length"]
                     = <<Itoa(Len(resp[r].body[1].bytes))>>
           /\ "Etag" \in DOMAIN resp[r].sent
                => resp[r].sent["Etag"] = <<etag(resp[r].body[1].bytes)>>

C9_Transitions ==
    {<<"IDLE", "RECEIVED">>, <<"RESPONDED", "RECEIVED">>,
     <<"RECEIVED", "ROUTED">>,
     <<"ROUTED", "READ_TX">>, <<"ROUTED", "WRITE_TX">>,
     <<"READ_TX", "ROLLED_BACK">>,
     <<"WRITE_TX", "COMMITTED">>, <<"WRITE_TX", "ROLLED_BACK">>,
     <<"COMMITTED", "RESPONDED">>, <<"ROLLED_BACK", "RESPONDED">>}

\* the transaction discipline in one state
C9_Discipline ==
    /\ \A r \in Slots :
        /\ hist[r].txs <= 1
        /\ pc[r] = "READ_TX" => req[r].method \in {"HEAD", "GET"}
        /\ pc[r] \in {"WRITE_TX", "COMMITTED"} => IsWriteMethod(req[r])
        /\ pc[r] \in {"READ_TX", "WRITE_TX", "COMMITTED", "ROLLED_BACK"}
            => hist[r].txs = 1
        /\ pc[r] = "WRITE_TX" <=> wr = r
        /\ Done(r) /\ req[r].method \in {"HEAD", "GET"} => hist[r].txs = 1
        /\ Done(r) /\ ~IsRead(req[r]) /\ ~IsWrite(req[r]) => hist[r].txs = 0
        /\ Done(r) /\ IsWrite(req[r]) /\ hist[r].txs = 0
            => resp[r].code \in {400, 412}
    /\ Cardinality({r \in Slots : pc[r] = "WRITE_TX"}) <= 1

\* the steps of one request
C9_Step ==
    \A r \in Slots :
        pc'[r] # pc[r]
        => \/ <<pc[r], pc'[r]>> \in C9_Transitions
           \/ /\ pc[r] = "ROUTED"
              /\ pc'[r] = "RESPONDED"
              /\ hist[r].txs = 0

\* C9: each request follows RECEIVED, ROUTED, READ_TX or WRITE_TX, COMMITTED
\* or ROLLED_BACK, RESPONDED and opens at most one transaction: read-only
\* for HEAD and GET, writable for PUT and DELETE, none for OPTIONS and for
\* requests rejected before a handler body; at most one writable transaction
\* is open at any time, none is shared, and each is closed when its request
\* is RESPONDED.
C9_RequestLifecycle ==
    C9_Discipline /\ [][C9_Step /\ C9_Discipline']_vars

\* two writers: one holds the writable transaction, the other waits for it
C9_Witness ==
    /\ pc[1] = "WRITE_TX"
    /\ pc[2] = "ROUTED"
    /\ IsWriteMethod(req[2])
    /\ ~badPutOrDeleteHeaders(resp[2], req[2]).bad
    /\ ~DeleteTooShallow(req[2])

\* C10: a PUT with a body answers 201 with a Location header exactly when
\* no value existed at the addressed node before the request, and 204
\* exactly when it overwrote an existing value.
C10_CreatedIffNew ==
    \A r \in Slots :
        (Done(r) /\ PutWithBody(req[r]) /\ resp[r].code \in {201, 204})
        => /\ resp[r].code = 201 <=> splitPath(req[r].path) \notin DOMAIN PreDB(r).val
           /\ resp[r].code = 201 <=> "Location" \in DOMAIN resp[r].sent


\* the node a path resolves to holds a value or is a container in d
NodeExists(d, path) ==
    splitPath(path) \in d.bk \/ splitPath(path) \in DOMAIN d.val

\* C11 (amended): right after a DELETE of P that is answered 204 the value
\* and the record of P are gone and GET P and HEAD P answer 404; from then
\* on HEAD P answers 404 until a later PUT to P succeeds, and GET P answers
\* 404 for as long as nothing exists at the node P resolves to.
C11_DeleteRemovesValueAndRecord ==
    /\ \A r \in Slots :
        (Done(r) /\ req[r].method = "DELETE" /\ resp[r].code = 204)
        => /\ req[r].path \notin DOMAIN db.hb
           /\ ~NodeExists(db, req[r].path)
           /\ ServeRead(db, PlainGet(req[r].path)).code = 404
           /\ ServeRead(db, PlainHead(req[r].path)).code = 404
    /\ \A P \in gone :
        /\ P \notin DOMAIN db.hb
        /\ ServeRead(db, PlainHead(P)).code = 404
        /\ ~NodeExists(db, P) => ServeRead(db, PlainGet(P)).code = 404

\* a DELETE of a value two levels below the root was answered 204
C11_Witness ==
    \E r \in Slots :
        /\ Done(r)
        /\ req[r].method = "DELETE"
        /\ resp[r].code = 204
        /\ Len(splitPath(req[r].path)) = 3
        /\ splitPath(req[r].path) \in DOMAIN hist[r].pre.val

\* C11: after a DELETE of P that is answered 204, GET P and HEAD P answer
\* 404 until a later PUT to P succeeds.
C11_NotFoundUntilPut ==
    \A P \in gone :
        /\ ServeRead(db, PlainGet(P)).code = 404
        /\ ServeRead(db, PlainHead(P)).code = 404


\* a PUT or DELETE that badPutOrDeleteHeaders lets through
HeadersAccepted(q) == ~badPutOrDeleteHeaders(NewResponse, q).bad

\* the containers and values of d below the node
Subtree(d, node) ==
    {k \in d.bk \cup DOMAIN d.val :
        Len(k) >= Len(node) /\ SubSeq(k, 1, Len(node)) = node}

\* C12: a DELETE addressed to an existing container below the root level
\* removes the container with its subtree and is answered 204; afterwards
\* its parent no longer lists it.
C12_DeleteRemovesContainer ==
    \A r \in Slots :
        (/\ Done(r)
         /\ req[r].method = "DELETE"
         /\ HeadersAccepted(req[r])
         /\ "If-Match" \notin DOMAIN req[r].header
         /\ Len(splitPath(req[r].path)) >= 3
         /\ splitPath(req[r].path) \in PreDB(r).bk)
        => /\ resp[r].code = 204
           /\ Subtree(db, splitPath(req[r].path)) = {}
           /\ LET keys == listKeys(db, ButLast(splitPath(req[r].path)))
              IN  \A i \in 1..Len(keys) : keys[i] # Last(splitPath(req[r].path))


\* C13: a PUT that carries a body of unknown length (no Content-Length) is
\* answered 411 and creates no value, no metadata record and no container.
C13_LengthRequired ==
    \A r \in Slots :
        (/\ Done(r)
         /\ req[r].method = "PUT"
         /\ req[r].ContentLength = -1
         /\ req[r].body # <<>>)
        => resp[r].code = 411 /\ ~hist[r].mutated /\ db = PreDB(r)


\* the spellings of the root itself
RootSpellings == {P \in Paths : \A i \in 1..Len(P) : P[i] = "/"}

\* the If-Match header of q fails on a spelling of the root: the record of
\* "/" carries no ETag, so any If-Match fails there; an alias has no record,
\* so only an If-Match listing "*" fails
IfMatchFailsOnRoot(q) ==
    /\ "If-Match" \in DOMAIN q.header
    /\ \/ q.path = PRoot
       \/ \E i \in 1..Len(q.header["If-Match"]) : q.header["If-Match"][i] = "*"

\* C14 (amended): a PUT with a body addressed to the root itself ("/" or an
\* all-slash alias) stores nothing and is answered 400, unless an earlier
\* check answers first: 400 for a Content-Length above 2^24, 412 for a
\* non-empty If-None-Match, 412 for an If-Match that fails.  A PUT with a
\* body directly under the root is never answered 400 for its depth: when
\* it passes the header checks, its If-Match holds against the record
\* stored under its path, its body is delivered whole and no container has
\* its name, it answers 201 or 204 and its value lives in the root
\* container.  A bodyless PUT directly under the root that passes the header
\* checks answers 200 and has created a top-level container, unless a value
\* has that name, and then it answers 500.
C14_RootItselfRejectsValue ==
    \A r \in Slots :
        Done(r) /\ req[r].method = "PUT"
        => LET parts == splitPath(req[r].path)
               whole == Len(req[r].body) >= req[r].ContentLength
           IN  /\ PutWithBody(req[r]) /\ req[r].path \in RootSpellings
                    => /\ resp[r].code =
                            IF req[r].ContentLength > MaxContentLength THEN 400
                            ELSE IF HeaderGet(req[r].header, "If-None-Match") # ""
                            THEN 412
                            ELSE IF IfMatchFailsOnRoot(req[r]) THEN 412
                            ELSE 400
                       /\ ~hist[r].mutated /\ db = PreDB(r)
               /\ PutWithBody(req[r]) /\ Len(parts) = 2
                    /\ HeadersAccepted(req[r]) /\ whole
                    => /\ resp[r].code # 400
                       /\ ~PreconditionFails(PreDB(r), req[r])
                            /\ parts \notin PreDB(r).bk
                            => /\ resp[r].code \in {201, 204}
                               /\ parts \in DOMAIN db.val
                               /\ db.val[parts] = PutBytes(req[r])
               /\ req[r].ContentLength = 0 /\ Len(parts) = 2
                    /\ HeadersAccepted(req[r])
                    => /\ resp[r].code =
                            IF parts \in DOMAIN PreDB(r).val THEN 500 ELSE 200
                       /\ resp[r].code = 200 => parts \in db.bk

\* a PUT with a body directly under the root was answered 201
C14_Witness ==
    \E r \in Slots :
        /\ Done(r)
        /\ PutWithBody(req[r])
        /\ Len(splitPath(req[r].path)) = 2
        /\ resp[r].code = 201

\* a PUT of "//" with a body and an If-Match naming an ETag was answered 400
C14_WitnessAliasWithIfMatch ==
    \E r \in Slots :
        /\ Done(r)
        /\ PutWithBody(req[r])
        /\ req[r].path = PRoot2
        /\ "If-Match" \in DOMAIN req[r].header
        /\ ~IfMatchFailsOnRoot(req[r])
        /\ resp[r].code = 400

\* a PUT of "/" with a body and an If-Match naming an ETag was answered 412
C14_WitnessRootWithIfMatch ==
    \E r \in Slots :
        /\ Done(r)
        /\ PutWithBody(req[r])
        /\ req[r].path = PRoot
        /\ HeaderValues(req[r].header, "If-Match") = <<etag(BodyF)>>
        /\ resp[r].code = 412

\* a PUT with a body directly under the root was answered 412 for a stale
\* If-Match while the record exists
C14_WitnessStaleIfMatch ==
    \E r \in Slots :
        /\ Done(r)
        /\ PutWithBody(req[r])
        /\ Len(splitPath(req[r].path)) = 2
        /\ HeadersAccepted(req[r])
        /\ req[r].path \in DOMAIN PreDB(r).hb
        /\ PreconditionFails(PreDB(r), req[r])
        /\ resp[r].code = 412

\* a PUT with a body directly under the root was answered 500 where a
\* container has its name
C14_WitnessOnContainer ==
    \E r \in Slots :
        /\ Done(r)
        /\ PutWithBody(req[r])
        /\ Len(splitPath(req[r].path)) = 2
        /\ HeadersAccepted(req[r])
        /\ splitPath(req[r].path) \in PreDB(r).bk
        /\ resp[r].code = 500

\* a bodyless PUT directly under the root was answered 500 on a value
C14_WitnessBodylessOnValue ==
    \E r \in Slots :
        /\ Done(r)
        /\ req[r].method = "PUT" /\ req[r].ContentLength = 0
        /\ Len(splitPath(req[r].path)) = 2
        /\ splitPath(req[r].path) \in DOMAIN PreDB(r).val
        /\ resp[r].code = 500

\* C14: a PUT with a body directly under the root is rejected with 400, and
\* in every reachable state the root container holds only containers, never
\* a value.
C14_NoValueInRoot ==
    /\ \A k \in DOMAIN db.val : Len(k) > 2
    /\ \A r \in Slots :
        (Done(r) /\ PutWithBody(req[r]) /\ HeadersAccepted(req[r])
            /\ Len(splitPath(req[r].path)) = 2)
        => resp[r].code = 400


\* C15 (amended): a DELETE addressed to the root itself ("/" or an
\* all-slash alias) is always answered 400, or 412 when it carries a
\* non-empty If-None-Match and a Content-Length of at most 2^24, without
\* opening a transaction or changing anything, whatever its If-Match header;
\* a DELETE directly under the root that passes the header checks opens one
\* transaction and is never answered 400.
C15_RootItselfNotDeletable ==
    \A r \in Slots :
        Done(r) /\ req[r].method = "DELETE"
        => /\ req[r].path \in RootSpellings
                => /\ hist[r].txs = 0
                   /\ ~hist[r].mutated
                   /\ resp[r].code =
                        IF HeaderGet(req[r].header, "If-None-Match") # ""
                           /\ req[r].ContentLength <= MaxContentLength
                        THEN 412 ELSE 400
           /\ Len(splitPath(req[r].path)) = 2 /\ HeadersAccepted(req[r])
                => hist[r].txs = 1 /\ resp[r].code # 400

\* a DELETE of "//" with If-Match was answered 400
C15_Witness ==
    \E r \in Slots :
        /\ Done(r)
        /\ req[r].method = "DELETE"
        /\ req[r].path = PRoot2
        /\ "If-Match" \in DOMAIN req[r].header
        /\ resp[r].code = 400

\* a DELETE directly under the root with a stale If-Match was answered 412
\* in its one transaction while the record exists
C15_WitnessDepthOne ==
    \E r \in Slots :
        /\ Done(r)
        /\ req[r].method = "DELETE"
        /\ Len(splitPath(req[r].path)) = 2
        /\ req[r].path \in DOMAIN PreDB(r).hb
        /\ PreconditionFails(PreDB(r), req[r])
        /\ hist[r].txs = 1
        /\ resp[r].code = 412

\* C15: a DELETE whose path is directly under the root is always answered
\* 400 without opening a transaction.
C15_DepthOneDeleteIs400 ==
    \A r \in Slots :
        (Done(r) /\ req[r].method = "DELETE"
            /\ Len(splitPath(req[r].path)) = 2)
        => resp[r].code = 400 /\ hist[r].txs = 0


\* C16: a PUT or DELETE whose Content-Length exceeds 2^24 is answered 400
\* (exactly 2^24 is let through), one carrying a non-empty If-None-Match is
\* answered 412; both are rejected before any transaction is opened and
\* leave the stored state unchanged.
C16_RejectedByHeaders ==
    \A r \in Slots :
        Done(r) /\ IsWriteMethod(req[r])
        => LET tooLarge == req[r].ContentLength > MaxContentLength
               inm == HeaderGet(req[r].header, "If-None-Match")
           IN  /\ tooLarge
                    => resp[r].code = 400 /\ hist[r].txs = 0 /\ ~hist[r].mutated
               /\ ~tooLarge /\ inm # ""
                    => resp[r].code = 412 /\ hist[r].txs = 0 /\ ~hist[r].mutated
               /\ req[r].ContentLength = MaxContentLength /\ inm = ""
                    /\ ~DeleteTooShallow(req[r])
                    => hist[r].txs = 1

\* a PUT declaring one byte more than 2^24 was answered 400
C16_Witness ==
    \E r \in Slots :
        /\ Done(r)
        /\ req[r].method = "PUT"
        /\ req[r].ContentLength = MaxContentLength + 1
        /\ resp[r].code = 400
        /\ hist[r].txs = 0


\* the values of the header field k of q, as a set
Listed(q, k) ==
    {HeaderValues(q.header, k)[i] : i \in 1..Len(HeaderValues(q.header, k))}

\* C17: a GET on a path with a stored metadata record whose If-None-Match
\* lists "*" or the stored ETag is answered 304 with an empty body and with
\* ETag, taken from the snapshot the GET reads, as the only header set.
C17_NotModified ==
    \A r \in Slots :
        (/\ Done(r)
         /\ req[r].method = "GET"
         /\ req[r].path \in DOMAIN hist[r].pre.hb
         /\ \/ "*" \in Listed(req[r], "If-None-Match")
            \/ StoredTag(hist[r].pre, req[r].path) \in Listed(req[r], "If-None-Match"))
        => /\ resp[r].code = 304
           /\ resp[r].body = <<>>
           /\ DOMAIN resp[r].sent = {"Etag"}
           /\ resp[r].sent["Etag"] = <<StoredTag(hist[r].pre, req[r].path)>>

\* a GET of a stored value that lists its ETag was answered 304
C17_Witness ==
    \E r \in Slots :
        /\ Done(r)
        /\ req[r].method = "GET"
        /\ resp[r].code = 304
        /\ Listed(req[r], "If-None-Match") = {etag(BodyF)}
        /\ splitPath(req[r].path) \in DOMAIN db.val
        /\ db.val[splitPath(req[r].path)] = BodyF


\* C18: a DELETE on a path whose metadata record exists while no value is
\* at its node is answered 500 and deletes nothing, not even the record.
C18_OrphanRecordIs500 ==
    \A r \in Slots :
        (/\ Done(r)
         /\ req[r].method = "DELETE"
         /\ HeadersAccepted(req[r])
         /\ Len(splitPath(req[r].path)) >= 2
         /\ req[r].path \in DOMAIN PreDB(r).hb
         /\ ~NodeExists(PreDB(r), req[r].path)
         /\ checkIfMatch(getHeaderValue(PreDB(r), req[r].path).header, req[r]))
        => resp[r].code = 500 /\ db = PreDB(r)


\* C19: a DELETE on a path other than the root that has no metadata record
\* and whose If-Match does not list "*" is answered 404, not 412 and not
\* 204, and changes nothing.
C19_DeleteWithoutRecordIs404 ==
    \A r \in Slots :
        (/\ Done(r)
         /\ req[r].method = "DELETE"
         /\ req[r].path \notin RootSpellings
         /\ HeadersAccepted(req[r])
         /\ req[r].path \notin DOMAIN PreDB(r).hb
         /\ "*" \notin Listed(req[r], "If-Match"))
        => /\ resp[r].code = 404
           /\ ~hist[r].mutated
           /\ db = PreDB(r)

C19_Witness ==
    \E r \in Slots :
        /\ Done(r)
        /\ req[r].method = "DELETE"
        /\ Listed(req[r], "If-Match") = {etag(BodyF)}
        /\ req[r].path \notin DOMAIN db.hb
        /\ NodeExists(db, req[r].path)
        /\ Len(splitPath(req[r].path)) >= 3
        /\ resp[r].code = 404


\* C20: in every reachable state the root container exists, the metadata
\* record of "/" exists and is the empty object, and running the startup
\* bootstrap again on the store changes nothing; no request, a PUT or DELETE
\* addressed to "/" or "//" included, deletes or alters either.
C20_RootAlwaysThere ==
    /\ <<RootName>> \in db.bk
    /\ <<headerBucket>> \in db.bk
    /\ <<"/">> \in DOMAIN db.hb
    /\ db.hb[<<"/">>] = EmptyObject
    /\ Bootstrap(db) = db

C20_Witness ==
    \E r \in Slots :
        /\ Done(r)
        /\ req[r].method \in {"PUT", "DELETE"}
        /\ req[r].path \in RootSpellings
        /\ req[r].path # PRoot
        /\ hist[r].txs > 0
        /\ resp[r].code < 400
        /\ DOMAIN db.val # {}


\* the nodes of the namespace: every bucket but the header bucket, and
\* every value
NamespaceNodes(d) == (d.bk \ {<<headerBucket>>}) \cup DOMAIN d.val

\* C21 (amended): no request path resolves to the metadata container.  The
\* header bucket stays a bucket at the top level of the store, every node
\* of the namespace lies below the root bucket and none is named like the
\* header bucket, no request path has the header bucket's name as a
\* segment, no listing shows it, and a GET of /%00headers is answered 404
\* for as long as no client has stored a node at that very path.
C21_HeaderBucketUnreachable ==
    /\ <<headerBucket>> \in db.bk
    /\ <<headerBucket>> \notin DOMAIN db.val
    /\ \A k \in NamespaceNodes(db) :
        k[1] = RootName /\ \A i \in 1..Len(k) : k[i] # headerBucket
    /\ \A r \in Slots :
        /\ pc[r] # "IDLE" =>
            \A i \in 1..Len(splitPath(req[r].path)) :
                splitPath(req[r].path)[i] # headerBucket
        /\ ~IsNil(out[r].keys) =>
            \A i \in 1..Len(Val(out[r].keys)) : Val(out[r].keys)[i] # headerBucket
        /\ (/\ Done(r)
            /\ req[r].method = "GET"
            /\ req[r].path = EscapedPath(PNul)
            /\ ~NodeExists(PreDB(r), req[r].path))
           => resp[r].code = 404

C21_Witness ==
    \E r \in Slots :
        /\ Done(r)
        /\ req[r].method = "GET"
        /\ req[r].path = <<"/", "%", "0", "0", "h", "e", "a", "d", "e", "r", "s">>
        /\ resp[r].code = 404
        /\ DOMAIN db.val # {}

\* C21 as stated: every GET of /%00headers is answered 404.
C21_NulPathAlways404 ==
    \A r \in Slots :
        (Done(r) /\ req[r].method = "GET" /\ req[r].path = EscapedPath(PNul))
        => resp[r].code = 404


\* C22: a PUT that succeeds leaves every proper prefix of its path existing
\* as a container, and a bodyless PUT the full path as well; the containers
\* and the values that existed before are still there, unchanged but for
\* the value the PUT wrote; a bodyless PUT changes no value and no record,
\* and repeating it is answered 200 again and changes nothing.
C22_PutCreatesContainerChain ==
    \A r \in Slots :
        (Done(r) /\ req[r].method = "PUT" /\ resp[r].code \in {200, 201, 204})
        => LET parts == splitPath(req[r].path)
               bodyless == req[r].ContentLength <= 0
           IN  /\ \A i \in 1..(Len(parts) - 1) : SubSeq(parts, 1, i) \in db.bk
               /\ bodyless => parts \in db.bk
               /\ PreDB(r).bk \subseteq db.bk
               /\ \A k \in DOMAIN PreDB(r).val :
                    /\ k \in DOMAIN db.val
                    /\ k # parts => db.val[k] = PreDB(r).val[k]
               /\ bodyless =>
                    /\ resp[r].code = 200
                    /\ db.val = PreDB(r).val
                    /\ db.hb = PreDB(r).hb
                    /\ \A now \in Clock :
                        LET u == UpdateTx(db, req[r], NewResponse, now)
                        IN  /\ Commits(u.out)
                            /\ u.d = db
                            /\ AfterTx(HandlerOf(req[r]), req[r], u.w, u.out).code = 200

C22_Witness ==
    \E r \in Slots :
        /\ Done(r)
        /\ req[r].method = "PUT"
        /\ req[r].ContentLength <= 0
        /\ resp[r].code = 200
        /\ splitPath(req[r].path) \in hist[r].pre.bk
        /\ hist[r].txs = 1
        /\ \E k \in DOMAIN db.val : ButLast(k) = splitPath(req[r].path)


StoredFields == {"Content-Type", "Content-Length", "Etag", "Last-Modified"}

\* the header fields of a response that stem from a metadata record
RecordFields(w) == DOMAIN w.sent \ {"Location", "X-Content-Type-Options"}

\* C23: the record a PUT writes holds Content-Type and Content-Length as
\* the request carried them, the ETag of the stored bytes and a
\* Last-Modified of the server's clock, and nothing else; what the client
\* sent as ETag, Last-Modified or any other field is neither stored nor
\* returned by a later GET or HEAD.
C23_RecordHoldsAllowListOnly ==
    \A r \in Slots :
        (Done(r) /\ req[r].method = "PUT" /\ resp[r].code \in {201, 204})
        => LET pairs == db.hb[req[r].path]
               rec == JSONUnmarshal(pairs)
               get == ServeRead(db, PlainGet(req[r].path))
               head == ServeRead(db, PlainHead(req[r].path))
           IN  /\ \A i \in 1..Len(pairs) : pairs[i][1] \in StoredFields
               /\ \A k \in {"Content-Type", "Content-Length"} :
                    /\ k \in DOMAIN rec <=> HeaderValues(req[r].header, k) # <<>>
                    /\ k \in DOMAIN rec => rec[k] = req[r].header[k]
               /\ rec["Etag"] = <<etag(PutBytes(req[r]))>>
               /\ \E now \in Clock : rec["Last-Modified"] = <<now>>
               /\ get.code = 200 /\ head.code = 200
               /\ \A w \in {get, head} :
                    /\ RecordFields(w) = DOMAIN rec
                    /\ \A k \in DOMAIN rec : w.sent[k] = rec[k]

C23_Witness ==
    \E r \in Slots :
        /\ Done(r)
        /\ req[r].method = "PUT"
        /\ resp[r].code = 204
        /\ HeaderValues(req[r].header, "Etag") = <<"forged">>
        /\ "X-Csrf-Token" \in DOMAIN req[r].header
        /\ req[r].path \in DOMAIN db.hb


\* C24: HEAD on a path answers 200 with no body and exactly the stored
\* metadata headers when the path has a record, and 404 when it has none;
\* so it answers 404 on every container other than the root.
C24_HeadFollowsRecord ==
    \A r \in Slots :
        (Done(r) /\ req[r].method = "HEAD")
        => LET hv == getHeaderValue(PreDB(r), req[r].path)
           IN  /\ ~IsNil(hv.header) =>
                    /\ resp[r].code = 200
                    /\ resp[r].body = <<>>
                    /\ resp[r].sent = Val(hv.header)
               /\ IsNil(hv.header) => resp[r].code = 404
               /\ (/\ Len(splitPath(req[r].path)) >= 2
                   /\ splitPath(req[r].path) \in PreDB(r).bk)
                  => resp[r].code = 404


\* C25: a request whose verb is none of HEAD, OPTIONS, GET, PUT, DELETE is
\* answered 405 with Allow: GET,PUT,DELETE,HEAD, without a transaction and
\* without a change of state.
C25_OtherVerbsAre405 ==
    \A r \in Slots :
        (Done(r) /\ req[r].method \notin {"HEAD", "OPTIONS", "GET", "PUT", "DELETE"})
        => /\ resp[r].code = 405
           /\ HeaderValues(resp[r].sent, "Allow") = <<"GET,PUT,DELETE,HEAD">>
           /\ hist[r].txs = 0
           /\ db = PreDB(r)


\* the value bytes of a response body, chunk after chunk
RECURSIVE ValueBytes(_)
ValueBytes(body) ==
    IF body = <<>> THEN <<>>
    ELSE (IF "bytes" \in DOMAIN Head(body) THEN Head(body).bytes ELSE <<>>)
            \o ValueBytes(Tail(body))

\* value[s..e] for each span in turn, one after the other
RECURSIVE SpansOf(_, _)
SpansOf(value, spans) ==
    IF spans = <<>> THEN <<>>
    ELSE SubSeq(value, Head(spans).Start + 1, Head(spans).Stop + 1)
            \o SpansOf(value, Tail(spans))

\* a GET with a Range header that finds a value at its path
RangeGetOfValue(r) ==
    /\ Done(r)
    /\ req[r].method = "GET"
    /\ "Range" \in DOMAIN req[r].header
    /\ "If-None-Match" \notin DOMAIN req[r].header
    /\ splitPath(req[r].path) \in DOMAIN PreDB(r).val

RangeOf(r) == RangeSyntax[req[r].header["Range"][1]]

StoredValue(r) == PreDB(r).val[splitPath(req[r].path)]

\* C26: for a stored value of length n and a Range header of bytes spans
\* with 0 <= s <= e < n each, GET answers 206 and the body is the spans
\* value[s..e] one after the other in the order of the header, overlapping
\* and repeated spans each in full.
C26_RangeBodyIsSpansInOrder ==
    \A r \in Slots :
        (/\ RangeGetOfValue(r)
         /\ RangeOf(r).unit = "bytes"
         /\ \A i \in 1..Len(RangeOf(r).spans) :
                /\ 0 <= RangeOf(r).spans[i].Start
                /\ RangeOf(r).spans[i].Start <= RangeOf(r).spans[i].Stop
                /\ RangeOf(r).spans[i].Stop < Len(StoredValue(r)))
        => /\ resp[r].code = 206
           /\ Len(resp[r].body) = Len(RangeOf(r).spans)
           /\ ValueBytes(resp[r].body) = SpansOf(StoredValue(r), RangeOf(r).spans)

C26_Witness ==
    \E r \in Slots :
        /\ RangeGetOfValue(r)
        /\ req[r].header["Range"] = <<"bytes=1-2,0-1">>
        /\ resp[r].code = 206
        /\ ValueBytes(resp[r].body) = <<111, 98, 102, 111>>

\* C27: a GET with a Range header whose unit is not bytes is answered 400,
\* one with a span that reaches beyond the value 416; in both cases no byte
\* of the value is in the response, and no GET ever takes a slice of the
\* value out of its bounds.
C27_BadRangeIsRejected ==
    \A r \in Slots :
        /\ (pc[r] # "IDLE" /\ req[r].method = "GET") => ~out[r].panic
        /\ RangeGetOfValue(r) =>
            /\ RangeOf(r).unit # "bytes" =>
                resp[r].code = 400 /\ ValueBytes(resp[r].body) = <<>>
            /\ (/\ RangeOf(r).unit = "bytes"
                /\ \E i \in 1..Len(RangeOf(r).spans) :
                      RangeOf(r).spans[i].Stop >= Len(StoredValue(r)))
               => resp[r].code = 416 /\ ValueBytes(resp[r].body) = <<>>

C27_Witness ==
    \E r \in Slots :
        /\ RangeGetOfValue(r)
        /\ req[r].header["Range"] = <<"bytes=0-0,2-3">>
        /\ Len(StoredValue(r)) = 3
        /\ resp[r].code = 416
        /\ resp[r].body = <<[text |-> "Requested range not satisfiable.\n"]>>


\* the names of the direct children of the node in d
ChildNames(d, node) ==
    {Last(k) : k \in {x \in NamespaceNodes(d) : Len(x) > 1 /\ ButLast(x) = node}}

\* a GET without If-None-Match that finds a container at its path
GetOfContainer(r) ==
    /\ Done(r)
    /\ req[r].method = "GET"
    /\ "If-None-Match" \notin DOMAIN req[r].header
    /\ splitPath(req[r].path) \in PreDB(r).bk

\* C28: GET on a container path answers 200 and lists the names of exactly
\* the direct children of the container, sub-containers and values alike,
\* each once, nothing from deeper down and nothing of the metadata, in
\* ascending byte order; without an Accept header one name per line.
C28_ListingIsDirectChildrenSorted ==
    \A r \in Slots :
        GetOfContainer(r)
        => /\ resp[r].code = 200
           /\ ~IsNil(out[r].keys)
           /\ LET keys == Val(out[r].keys)
                  children == ChildNames(PreDB(r), splitPath(req[r].path))
              IN  /\ {keys[i] : i \in 1..Len(keys)} = children
                  /\ Len(keys) = Cardinality(children)
                  /\ \A i, j \in 1..Len(keys) : i < j => BytesLess(keys[i], keys[j])
                  /\ "Accept" \notin DOMAIN req[r].header =>
                        resp[r].body = [i \in 1..Len(keys) |-> [line |-> keys[i]]]

C28_Witness ==
    \E r \in Slots :
        /\ GetOfContainer(r)
        /\ req[r].path = PRoot
        /\ resp[r].code = 200
        /\ resp[r].body = <<[line |-> <<"b", "a", "r">>], [line |-> <<"b", "a", "z">>],
                            [line |-> <<"f", "o", "o">>]>>
        /\ <<RootName, <<"b", "a", "r">>, <<"a">> >> \in NamespaceNodes(db)
        /\ <<RootName, <<"f", "o", "o">> >> \in DOMAIN db.val


\* the Accept header of a request as req.Header.Get reads it
AcceptOf(q) ==
    IF "Accept" \in DOMAIN q.header /\ Len(q.header["Accept"]) > 0
    THEN q.header["Accept"][1] ELSE <<>>

\* C29: a container listing is rendered in one representation chosen from
\* the Accept header: one name per line when Accept is absent or starts
\* with */*, text/* or text/plain, a JSON array when it starts with
\* application/json, an XML bucket document when it starts with
\* application/xml, the HTML page when it starts with text/html, and no
\* body at all for any other Accept value.
C29_OneRepresentationByAccept ==
    \A r \in Slots :
        GetOfContainer(r)
        => LET a == AcceptOf(req[r])
               keys == Val(out[r].keys)
               plain == \/ a = <<>>
                        \/ \E pre \in {AnyAny, TextAny, TextPlain} : HasPrefix(a, pre)
               json == HasPrefix(a, AppJson)
               xml == HasPrefix(a, AppXml)
               html == HasPrefix(a, TextHtml)
           IN  /\ resp[r].code = 200
               /\ plain => resp[r].body = [i \in 1..Len(keys) |-> [line |-> keys[i]]]
               /\ json => resp[r].body = <<[json |-> keys]>>
               /\ xml => resp[r].body = <<[xmlHeader |-> TRUE], [xml |-> keys]>>
               /\ html => resp[r].body =
                            <<[html |-> [Path |-> req[r].path, Keys |-> keys]]>>
               /\ ~(plain \/ json \/ xml \/ html) => resp[r].body = <<>>

C29_Witness ==
    \E r \in Slots :
        /\ GetOfContainer(r)
        /\ AcceptOf(req[r]) = AppJson \o <<",">> \o TextPlain
        /\ resp[r].body = <<[json |-> <<<<"b", "a", "r">>, <<"f", "o", "o">>>>]>>


\* the rule for If-Match: without a record it holds iff "*" is not listed;
\* with a record it holds iff the header is absent or a listed value is "*"
\* or is the stored ETag
IfMatchRule(header, q) ==
    IF IsNil(header) THEN "*" \notin Listed(q, "If-Match")
    ELSE \/ "If-Match" \notin DOMAIN q.header
         \/ "*" \in Listed(q, "If-Match")
         \/ HeaderGet(Val(header), "ETag") \in Listed(q, "If-Match")

\* C30: for every stored record (none, one with an ETag, one with an empty
\* ETag as the root's) and every If-Match header, the evaluator's result is
\* what the rule says.
C30_IfMatchFollowsRule ==
    \A r \in Slots :
        (/\ pc[r] # "IDLE"
         /\ HeadersAccepted(req[r])
         /\ \/ PutWithBody(req[r])
            \/ req[r].method = "DELETE" /\ ~DeleteTooShallow(req[r]))
        => LET header == getHeaderValue(db, req[r].path).header
           IN  checkIfMatch(header, req[r]) = IfMatchRule(header, req[r])


\* the path without the slashes that another slash or the end follows
RECURSIVE Squeeze(_)
Squeeze(path) ==
    IF path = <<>> THEN <<>>
    ELSE IF Head(path) = "/" /\ (Len(path) = 1 \/ path[2] = "/")
    THEN Squeeze(Tail(path))
    ELSE <<Head(path)>> \o Squeeze(Tail(path))

\* the segments one after the other, a slash before each
RECURSIVE SlashJoin(_)
SlashJoin(segs) ==
    IF segs = <<>> THEN <<>> ELSE <<"/">> \o Head(segs) \o SlashJoin(Tail(segs))

\* C31: the path resolver maps a path to the synthetic "/" segment followed
\* by exactly its non-empty components in order, split at literal "/"
\* only; a percent-encoded slash does not separate, so /a%2fb never
\* addresses the node stored at /a/b, and GET and HEAD of it answer 404
\* while nothing is stored at /a%2fb itself.
C31_PathResolver ==
    \A r \in Slots :
        pc[r] # "IDLE"
        => LET parts == splitPath(req[r].path)
           IN  /\ parts[1] = <<"/">>
               /\ \A i \in 2..Len(parts) :
                    /\ parts[i] # <<>>
                    /\ \A j \in 1..Len(parts[i]) : parts[i][j] # "/"
               /\ SlashJoin(Tail(parts)) = Squeeze(req[r].path)
               /\ req[r].path = PEscSlash =>
                    /\ parts = <<RootName, <<"a", "%", "2", "f", "b">> >>
                    /\ (/\ Done(r)
                        /\ req[r].method \in {"GET", "HEAD"}
                        /\ ~NodeExists(PreDB(r), req[r].path)
                        /\ req[r].path \notin DOMAIN PreDB(r).hb)
                       => resp[r].code = 404

C31_Witness ==
    \E r \in Slots :
        /\ Done(r)
        /\ req[r].method = "GET"
        /\ req[r].path = PEscSlash
        /\ resp[r].code = 404
        /\ <<RootName, <<"a">>, <<"b">> >> \in DOMAIN db.val
        /\ <<"/", "a", "/", "b">> \in DOMAIN db.hb


\* C32: a 206 response carries the stored Content-Type and Last-Modified of
\* the value and never its stored ETag or Content-Length, and serving a
\* range leaves the stored record as it was.
C32_PartialCarriesStoredHeaders ==
    \A r \in Slots :
        (RangeGetOfValue(r) /\ resp[r].code = 206 /\ req[r].path \in DOMAIN PreDB(r).hb)
        => LET rec == JSONUnmarshal(PreDB(r).hb[req[r].path])
           IN  /\ \A k \in {"Content-Type", "Last-Modified"} :
                    k \in DOMAIN rec
                    => k \in DOMAIN resp[r].sent /\ resp[r].sent[k] = rec[k]
               /\ "Etag" \notin DOMAIN resp[r].sent
               /\ "Content-Length" \notin DOMAIN resp[r].sent
               /\ db.hb = PreDB(r).hb

\* what does hold of a 206 response: no stored field is on the wire, and
\* the record is as it was
C32_PartialCarriesNoStoredHeader ==
    \A r \in Slots :
        (RangeGetOfValue(r) /\ resp[r].code = 206 /\ req[r].path \in DOMAIN PreDB(r).hb)
        => /\ RecordFields(resp[r]) = {}
           /\ db = PreDB(r)


\* the path runs to or through a value of the database d
ThroughValue(d, path) ==
    \E n \in 2..Len(splitPath(path)) : SubSeq(splitPath(path), 1, n) \in DOMAIN d.val

\* C33: in every reachable state no name within a container denotes both a
\* sub-container and a value; a PUT with a body addressed to an existing
\* container, and a bodyless PUT addressed to or passing through an
\* existing value, fail and leave the tree and every record as they were.
C33_NoNameIsContainerAndValue ==
    /\ db.bk \cap DOMAIN db.val = {}
    /\ \A r \in Slots :
        (/\ Done(r)
         /\ req[r].method = "PUT"
         /\ \/ PutWithBody(req[r]) /\ splitPath(req[r].path) \in PreDB(r).bk
            \/ ~PutWithBody(req[r]) /\ ThroughValue(PreDB(r), req[r].path))
        => /\ resp[r].code >= 400
           /\ db = PreDB(r)

C33_Witness ==
    \E r \in Slots :
        /\ Done(r)
        /\ req[r].method = "PUT"
        /\ ~PutWithBody(req[r])
        /\ req[r].path = PBarA
        /\ splitPath(PBar) \in DOMAIN db.val
        /\ \E k \in db.bk : Len(k) > 1
        /\ resp[r].code = 500

C33_WitnessBodyToContainer ==
    \E r \in Slots :
        /\ Done(r)
        /\ PutWithBody(req[r])
        /\ splitPath(req[r].path) \in db.bk
        /\ Len(splitPath(req[r].path)) > 1
        /\ resp[r].code = 500


\* C34: no step of a HEAD, GET or OPTIONS request, whatever its headers and
\* its outcome, changes the namespace tree or any metadata record.
C34_ReadsNeverChangeStore ==
    [][\A r \in Slots :
        (/\ InFlight(r)
         /\ pc'[r] # pc[r]
         /\ req[r].method \in {"HEAD", "GET", "OPTIONS"})
        => db' = db]_vars

C34_Witness ==
    \E r \in Slots :
        /\ Done(r)
        /\ req[r].method = "GET"
        /\ resp[r].code = 304
        /\ hist[r].txs = 1
        /\ req[r].path \in DOMAIN db.hb
        /\ splitPath(req[r].path) \in DOMAIN db.val
        /\ db = hist[r].pre


\* C35: every request that has been served got exactly one HTTP status:
\* every failure, a failed metadata write or a failed entry delete inside
\* the transaction included, is turned into one status for the caller.
C35_EveryRequestGetsOneStatus ==
    \A r \in Slots : Done(r) => resp[r].code # 0

\* the same for a DELETE whose path has a record and no node: the entry
\* delete of the absent key fails when a container follows it
C35_DeleteOfAbsentKeyGetsStatus ==
    \A r \in Slots :
        (/\ Done(r)
         /\ req[r].method = "DELETE"
         /\ req[r].path \in DOMAIN PreDB(r).hb
         /\ ~NodeExists(PreDB(r), req[r].path))
        => resp[r].code # 0


\* C36: no request ever removes a container: across every step the set of
\* containers of the namespace tree only grows; a DELETE that is answered
\* 204 found a metadata record at its path, and a DELETE whose path
\* resolves to a container changes nothing.
C36_ContainersOnlyGrow ==
    [][/\ db.bk \subseteq db'.bk
       /\ \A r \in Slots :
            (pc[r] = "WRITE_TX" /\ pc'[r] # pc[r] /\ req[r].method = "DELETE")
            => /\ db' # db => req[r].path \in DOMAIN db.hb
               /\ splitPath(req[r].path) \in db.bk => db' = db]_vars

C36_Witness ==
    \E r \in Slots :
        /\ Done(r)
        /\ req[r].method = "DELETE"
        /\ hist[r].txs = 1
        /\ req[r].path \in DOMAIN db.hb
        /\ splitPath(req[r].path) \in db.bk
        /\ out[r].panic
        /\ db = hist[r].pre


\* C37: every value stored in the namespace tree has a length between 1
\* and 2^24 bytes, the Content-Length of the PUT that stored it; a PUT
\* whose Content-Length is 0 or unknown stores neither a value nor a
\* metadata record and, when it succeeds, leaves a container at its full
\* path.
C37_ValuesAreNeverEmpty ==
    /\ \A k \in DOMAIN db.val :
        Len(db.val[k]) >= 1 /\ Len(db.val[k]) <= MaxContentLength
    /\ \A r \in Slots :
        (Done(r) /\ req[r].method = "PUT")
        => /\ req[r].ContentLength <= 0
              => /\ db.val = PreDB(r).val
                 /\ db.hb = PreDB(r).hb
                 /\ resp[r].code \notin {201, 204}
                 /\ resp[r].code = 200 => splitPath(req[r].path) \in db.bk
           /\ resp[r].code \in {201, 204}
              => /\ req[r].ContentLength >= 1
                 /\ Len(db.val[splitPath(req[r].path)]) = req[r].ContentLength

C37_Witness ==
    \E r \in Slots :
        /\ Done(r)
        /\ req[r].method = "PUT"
        /\ req[r].ContentLength = -1
        /\ req[r].body # <<>>
        /\ resp[r].code = 200
        /\ splitPath(req[r].path) \in db.bk
        /\ splitPath(req[r].path) \notin hist[r].pre.bk
        /\ db.val = hist[r].pre.val
        /\ db.hb = hist[r].pre.hb

=============================================================================
